---------------------------- MODULE Spec2Model ----------------------------
(***************************************************************************)
(* Model of the SwingTrade scoring engine: src/src/indicators.js (the      *)
(* indicator calculator) and src/src/scoring.js (gradient interpolation,   *)
(* the relative-strength, trend, pullback and volatility scorers, and      *)
(* calculateAllScores, which ranks a batch of tickers).                    *)
(*                                                                         *)
(* JavaScript numbers are modelled as exact rationals <<n, d>> in lowest   *)
(* terms with d > 0.  Three more pairs stand for the values a JavaScript   *)
(* number or field can also be: null (<<0, -1>>), NaN (<<0, 0>>) and the   *)
(* infinities (<<1, 0>>, <<-1, 0>>), which only a division by zero makes.  *)
(* A JavaScript object is a sequence of entries in insertion order, which  *)
(* is the order Object.entries iterates in.                                *)
(***************************************************************************)
EXTENDS Integers, Sequences, FiniteSets, TLC

(***************************************************************************)
(* Numbers                                                                 *)
(***************************************************************************)
null == <<0, -1>>
NaN == <<0, 0>>

Abs(n) == IF n < 0 THEN -n ELSE n

RECURSIVE GCD(_, _)
GCD(a, b) == IF b = 0 THEN a ELSE GCD(b, a % b)

\* n/d in lowest terms, for d > 0
Norm(n, d) ==
    LET g == GCD(Abs(n), d)
    IN  <<n \div g, d \div g>>

Num(n) == <<n, 1>>
Frac(n, d) == Norm(n, d)

IsFinite(a) == a[2] > 0

Add(a, b) ==
    LET g == GCD(a[2], b[2])
        l == (a[2] \div g) * b[2]
    IN  Norm(a[1] * (l \div a[2]) + b[1] * (l \div b[2]), l)

Neg(a) == <<-a[1], a[2]>>
Sub(a, b) == Add(a, Neg(b))

Mul(a, b) ==
    LET g1 == GCD(Abs(a[1]), b[2])
        g2 == GCD(Abs(b[1]), a[2])
    IN  IF a[2] = 0 \/ b[2] = 0 THEN NaN
        ELSE <<(a[1] \div g1) * (b[1] \div g2), (a[2] \div g2) * (b[2] \div g1)>>

Sign(n) == IF n < 0 THEN -1 ELSE IF n > 0 THEN 1 ELSE 0

\* a / b; a division by zero gives NaN (0/0) or an infinity, as in JavaScript
Div(a, b) ==
    IF b[1] = 0 THEN <<Sign(a[1]), 0>>
    ELSE Mul(a, <<Sign(b[1]) * b[2], Abs(b[1])>>)

Lt(a, b) == a[2] > 0 /\ b[2] > 0 /\ a[1] * b[2] < b[1] * a[2]
Le(a, b) == a[2] > 0 /\ b[2] > 0 /\ a[1] * b[2] <= b[1] * a[2]
Gt(a, b) == Lt(b, a)
Ge(a, b) == Le(b, a)

MathMax(a, b) == IF Lt(a, b) THEN b ELSE a
MathMin(a, b) == IF Lt(b, a) THEN b ELSE a
MathAbs(a) == <<Abs(a[1]), a[2]>>

\* Math.round(x): the integer nearest to x, a half rounding up
MathRound(x) == Num((2 * x[1] + x[2]) \div (2 * x[2]))

\* Math.round(x * 100) / 100
Round2(x) == Div(MathRound(Mul(x, Num(100))), Num(100))

\* for (i = lo; i <= hi; i++) acc = Body(i, acc).  The range is split in two
\* halves and the first half's result is compared with itself so that TLC
\* computes it before the second half starts: the evaluation stack then
\* grows with the logarithm of the number of iterations.
RECURSIVE For(_, _, _, _)
For(Body(_, _), lo, hi, acc) ==
    IF lo > hi THEN acc
    ELSE IF lo = hi THEN Body(lo, acc)
    ELSE LET mid == (lo + hi) \div 2
             left == For(Body, lo, mid, acc)
         IN  IF left = left THEN For(Body, mid + 1, hi, left) ELSE left

\* s.reduce((sum, v) => sum + v, 0)
Sum(s) == For(LAMBDA i, sum : Add(sum, s[i]), 1, Len(s), Num(0))

\* s.slice(from, to) with 0-based from (inclusive) and to (exclusive)
Slice(s, from, to) == SubSeq(s, from + 1, to)

(***************************************************************************)
(* indicators.js.  Indices i are the 0-based indices of the code; the      *)
(* sequences of the model are 1-based, so the code's s[i] is s[i + 1].     *)
(***************************************************************************)
\* a variant that lets a series one bar short through
OneBarShort == 80 - 1

\* a variant that asks for one bar more
OneBarMore == 80 + 1

MinBars == 80

sma(closes, period) ==
    IF Len(closes) < period THEN null
    ELSE Div(Sum(Slice(closes, Len(closes) - period, Len(closes))), Num(period))

\* a variant that averages the latest period closes whatever the offset
smaAtLatest(closes, period, offset) ==
    IF Len(closes) < period + offset THEN null
    ELSE Div(Sum(Slice(closes, Len(closes) - period, Len(closes))), Num(period))

smaAt(closes, period, offset) ==
    IF Len(closes) < period + offset THEN null
    ELSE LET end == Len(closes) - offset
         IN  Div(Sum(Slice(closes, end - period, end)), Num(period))

\* a variant that seeds with the first close alone
emaSeededOnFirstClose(closes, period) ==
    IF Len(closes) < period THEN null
    ELSE LET multiplier == Div(Num(2), Num(period + 1))
             seed == closes[1]
             Step(i, emaVal) ==
                 Add(Mul(Sub(closes[i + 1], emaVal), multiplier), emaVal)
         IN  For(Step, period, Len(closes) - 1, seed)

ema(closes, period) ==
    IF Len(closes) < period THEN null
    ELSE LET multiplier == Div(Num(2), Num(period + 1))
             seed == Div(Sum(Slice(closes, 0, period)), Num(period))
             Step(i, emaVal) ==
                 Add(Mul(Sub(closes[i + 1], emaVal), multiplier), emaVal)
         IN  For(Step, period, Len(closes) - 1, seed)

\* a variant that smooths a later change in as (avg + current) / 2
rsiHalving(closes, period) ==
    IF Len(closes) < period + 1 THEN null
    ELSE LET changes == [i \in 1..(Len(closes) - 1) |->
                            Sub(closes[i + 1], closes[i])]
             \* avg = <<avgGain, avgLoss>>
             First(i, avg) ==
                 IF Gt(changes[i + 1], Num(0))
                 THEN <<Add(avg[1], changes[i + 1]), avg[2]>>
                 ELSE <<avg[1], Add(avg[2], MathAbs(changes[i + 1]))>>
             Smooth(i, avg) ==
                 LET gain == IF Gt(changes[i + 1], Num(0))
                             THEN changes[i + 1] ELSE Num(0)
                     loss == IF Lt(changes[i + 1], Num(0))
                             THEN MathAbs(changes[i + 1]) ELSE Num(0)
                 IN  <<Div(Add(avg[1], gain), Num(2)),
                       Div(Add(avg[2], loss), Num(2))>>
             sums == For(First, 0, period - 1, <<Num(0), Num(0)>>)
             avg == For(Smooth, period, Len(changes) - 1,
                        <<Div(sums[1], Num(period)), Div(sums[2], Num(period))>>)
             avgGain == avg[1]
             avgLoss == avg[2]
         IN  IF avgLoss = Num(0) THEN Num(100)
             ELSE Sub(Num(100), Div(Num(100), Add(Num(1), Div(avgGain, avgLoss))))

rsi(closes, period) ==
    IF Len(closes) < period + 1 THEN null
    ELSE LET changes == [i \in 1..(Len(closes) - 1) |->
                            Sub(closes[i + 1], closes[i])]
             \* avg = <<avgGain, avgLoss>>
             First(i, avg) ==
                 IF Gt(changes[i + 1], Num(0))
                 THEN <<Add(avg[1], changes[i + 1]), avg[2]>>
                 ELSE <<avg[1], Add(avg[2], MathAbs(changes[i + 1]))>>
             Smooth(i, avg) ==
                 LET gain == IF Gt(changes[i + 1], Num(0))
                             THEN changes[i + 1] ELSE Num(0)
                     loss == IF Lt(changes[i + 1], Num(0))
                             THEN MathAbs(changes[i + 1]) ELSE Num(0)
                 IN  <<Div(Add(Mul(avg[1], Num(period - 1)), gain), Num(period)),
                       Div(Add(Mul(avg[2], Num(period - 1)), loss), Num(period))>>
             sums == For(First, 0, period - 1, <<Num(0), Num(0)>>)
             avg == For(Smooth, period, Len(changes) - 1,
                        <<Div(sums[1], Num(period)), Div(sums[2], Num(period))>>)
             avgGain == avg[1]
             avgLoss == avg[2]
         IN  IF avgLoss = Num(0) THEN Num(100)
             ELSE Sub(Num(100), Div(Num(100), Add(Num(1), Div(avgGain, avgLoss))))

atr(bars, period) ==
    IF Len(bars) < period + 1 THEN null
    ELSE LET trSeries == [i \in 1..(Len(bars) - 1) |->
                 LET high == bars[i + 1].h
                     low == bars[i + 1].l
                     prevClose == bars[i].c
                 IN  MathMax(MathMax(Sub(high, low), MathAbs(Sub(high, prevClose))),
                             MathAbs(Sub(low, prevClose)))]
             Smooth(i, atrVal) ==
                 Div(Add(Mul(atrVal, Num(period - 1)), trSeries[i + 1]), Num(period))
         IN  IF Len(trSeries) < period THEN null
             ELSE For(Smooth, period, Len(trSeries) - 1,
                      Div(Sum(Slice(trSeries, 0, period)), Num(period)))

avgVolume(bars, period) ==
    IF Len(bars) < period THEN null
    ELSE LET slice == Slice(bars, Len(bars) - period, Len(bars))
         IN  Div(For(LAMBDA i, sum : Add(sum, slice[i].v), 1, Len(slice), Num(0)),
                 Num(period))

returnPct(closes, tradingDays) ==
    IF Len(closes) < tradingDays + 1 THEN null
    ELSE LET current == closes[Len(closes)]
             past == closes[Len(closes) - tradingDays]
         IN  Mul(Div(Sub(current, past), past), Num(100))

\* a missing series (null or undefined in the code): no sequence has index 0
nullBars == [i \in {0} |-> 0]
IsNullBars(bars) == 0 \in DOMAIN bars

InsufficientData == "Insufficient data (need at least 80 trading days)"

\* a variant that takes the earlier sma50 40 bars back, not 20
indicatorsOfSlopeOver40(bars) ==
    IF IsNullBars(bars) \/ Len(bars) < MinBars
    THEN [error |-> InsufficientData]
    ELSE LET closes == [j \in 1..Len(bars) |-> bars[j].c]
         IN  [close |-> closes[Len(closes)],
              ema20 |-> ema(closes, 20),
              sma50 |-> sma(closes, 50),
              sma50_20ago |-> smaAt(closes, 50, 40),
              rsi14 |-> rsi(closes, 14),
              atr5 |-> atr(bars, 5),
              atr14 |-> atr(bars, 14),
              atr20 |-> atr(bars, 20),
              avgVol20 |-> avgVolume(bars, 20),
              return1m |-> returnPct(closes, 21),
              return3m |-> returnPct(closes, 63)]

\* bars is a sequence of bars [c, h, l, v], or nullBars
indicatorsOf(bars) ==
    IF IsNullBars(bars) \/ Len(bars) < MinBars
    THEN [error |-> InsufficientData]
    ELSE LET closes == [j \in 1..Len(bars) |-> bars[j].c]
         IN  [close |-> closes[Len(closes)],
              ema20 |-> ema(closes, 20),
              sma50 |-> sma(closes, 50),
              sma50_20ago |-> smaAt(closes, 50, 20),
              rsi14 |-> rsi(closes, 14),
              atr5 |-> atr(bars, 5),
              atr14 |-> atr(bars, 14),
              atr20 |-> atr(bars, 20),
              avgVol20 |-> avgVolume(bars, 20),
              return1m |-> returnPct(closes, 21),
              return3m |-> returnPct(closes, 63)]

(***************************************************************************)
(* The bar series the model draws its inputs from                          *)
(***************************************************************************)
Bar(close, volume) ==
    [c |-> Num(close), h |-> Num(close + 1), l |-> Num(close - 1),
     v |-> Num(volume)]

\* len bars that close at base, the last one at last
Series(len, base, last, volume) ==
    [j \in 1..len |-> Bar(IF j = len THEN last ELSE base, volume)]

\* none, one bar short, flat, a 50% jump, a 50% fall on thin volume
TickerSeries ==
    {nullBars,
     Series(79, 100, 100, 600000),
     Series(80, 100, 100, 600000),
     Series(80, 100, 150, 600000),
     Series(81, 100, 50, 100000)}

BenchmarkSeries ==
    {nullBars,
     Series(79, 100, 100, 600000),
     Series(80, 100, 100, 600000),
     Series(81, 100, 102, 600000)}

\* computeIndicators is a pure function: its value on each series of the
\* model is computed once
\* series around the length computeIndicators asks for
IndicatorSeries ==
    {nullBars}
    \cup {Series(len, 100, 100, 600000) : len \in {0, 1, 78, 79, 80, 81, 82}}
    \cup {Series(len, 100, 150, 600000) : len \in {79, 80}}

AllSeries == TickerSeries \cup BenchmarkSeries \cup IndicatorSeries
Indicators == [bars \in AllSeries |-> indicatorsOf(bars)]

computeIndicators(bars) == Indicators[bars]

(***************************************************************************)
(* JavaScript objects and arrays                                           *)
(***************************************************************************)
\* obj[key] = value: a new key is appended, an existing one keeps its place
Put(obj, key, value) ==
    IF \E j \in 1..Len(obj) : obj[j].key = key
    THEN [j \in 1..Len(obj) |->
             IF obj[j].key = key THEN [key |-> key, value |-> value] ELSE obj[j]]
    ELSE Append(obj, [key |-> key, value |-> value])

HasKey(obj, key) == \E j \in 1..Len(obj) : obj[j].key = key

\* obj[key], for a key the object has
Get(obj, key) == obj[CHOOSE j \in 1..Len(obj) : obj[j].key = key].value

\* arr.sort(cmp) for a consistent comparator, Before(a, b) standing for
\* cmp(a, b) < 0: the sort is stable (ECMAScript 2019), so the result is the
\* one an insertion sort gives that puts each element behind its equals
StableSort(arr, Before(_, _)) ==
    LET Insert(i, sorted) ==
            LET x == arr[i]
                k == Cardinality({j \in 1..Len(sorted) : ~Before(x, sorted[j])})
            IN  SubSeq(sorted, 1, k) \o <<x>> \o SubSeq(sorted, k + 1, Len(sorted))
    IN  For(Insert, 1, Len(arr), <<>>)

\* a === b on numbers
StrictEq(a, b) == a = b /\ a # NaN

\* x == null and x != null
IsNull(x) == x = null
\* the truth value of a number: 0, NaN and null are falsy
Truthy(x) == x # null /\ x # NaN /\ x[1] # 0

(***************************************************************************)
(* scoring.js                                                              *)
(***************************************************************************)
\* a variant that carries the first and the last segment on beyond their ends
gradientScoreUnclamped(value, breakpoints) ==
    LET n == Len(breakpoints)
        hits == {k \in 2..n : Le(value, breakpoints[k][1])}
    IN  IF n = 0 THEN Num(0)
        ELSE IF n = 1 THEN breakpoints[1][2]
        ELSE LET k == IF hits = {} THEN n
                      ELSE CHOOSE h \in hits : \A j \in hits : h <= j
                 x0 == breakpoints[k - 1][1]
                 y0 == breakpoints[k - 1][2]
                 x1 == breakpoints[k][1]
                 y1 == breakpoints[k][2]
                 t == Div(Sub(value, x0), Sub(x1, x0))
             IN  Add(y0, Mul(t, Sub(y1, y0)))

\* a variant that steps to the score of the next breakpoint
gradientScoreStep(value, breakpoints) ==
    LET n == Len(breakpoints)
        hits == {k \in 2..n : Le(value, breakpoints[k][1])}
    IN  IF n = 0 THEN Num(0)
        ELSE IF Le(value, breakpoints[1][1]) THEN breakpoints[1][2]
        ELSE IF Ge(value, breakpoints[n][1]) THEN breakpoints[n][2]
        ELSE IF hits = {} THEN breakpoints[n][2]
        ELSE breakpoints[CHOOSE h \in hits : \A j \in hits : h <= j][2]

\* breakpoints: a sequence of <<x, y>> pairs, ascending by x
gradientScore(value, breakpoints) ==
    LET n == Len(breakpoints)
        hits == {i \in 2..n : Le(value, breakpoints[i][1])}
    IN  IF n = 0 THEN Num(0)
        ELSE IF Le(value, breakpoints[1][1]) THEN breakpoints[1][2]
        ELSE IF Ge(value, breakpoints[n][1]) THEN breakpoints[n][2]
        ELSE IF hits = {} THEN breakpoints[n][2]
        ELSE LET i == CHOOSE k \in hits : \A j \in hits : k <= j
                 x0 == breakpoints[i - 1][1]
                 y0 == breakpoints[i - 1][2]
                 x1 == breakpoints[i][1]
                 y1 == breakpoints[i][2]
                 t == Div(Sub(value, x0), Sub(x1, x0))
             IN  Add(y0, Mul(t, Sub(y1, y0)))

\* a variant that counts a value equal to the ranked one as one below it
percentileRankTiesWhole(value, allValues) ==
    Div(Num(Cardinality({j \in 1..Len(allValues) : Le(allValues[j], value)})),
        Num(Len(allValues)))

\* a variant that counts no value equal to the ranked one
percentileRankTiesNone(value, allValues) ==
    Div(Num(Cardinality({j \in 1..Len(allValues) : Lt(allValues[j], value)})),
        Num(Len(allValues)))

percentileRank(value, allValues) ==
    LET sorted == StableSort(allValues, Lt)
        Count(i, count) ==
            IF Lt(sorted[i], value) THEN Add(count, Num(1))
            ELSE IF StrictEq(sorted[i], value) THEN Add(count, Frac(1, 2))
            ELSE count
    IN  Div(For(Count, 1, Len(sorted), Num(0)), Num(Len(sorted)))

calcRSComposite(stockIndicators, spyIndicators) ==
    LET rs1m == Sub(stockIndicators.return1m, spyIndicators.return1m)
        rs3m == Sub(stockIndicators.return3m, spyIndicators.return3m)
    IN  Add(Mul(Frac(6, 10), rs3m), Mul(Frac(4, 10), rs1m))

\* ind.error, which is a non-empty string when the field is there
HasError(ind) == "error" \in DOMAIN ind

\* the composites object that calcRSScores builds first
rsCompositesOf(allStockIndicators, spyIndicators) ==
    LET Step(j, composites) ==
            LET ticker == allStockIndicators[j].key
                ind == allStockIndicators[j].value
            IN  IF HasError(ind) \/ IsNull(ind.return1m) \/ IsNull(ind.return3m)
                THEN Put(composites, ticker, null)
                ELSE Put(composites, ticker, calcRSComposite(ind, spyIndicators))
    IN  For(Step, 1, Len(allStockIndicators), <<>>)

\* a variant that filters nothing out
valuesOf(composites) == [j \in 1..Len(composites) |-> composites[j].value]

\* Object.values(composites).filter(v => v !== null)
validValuesOf(composites) ==
    LET values == [j \in 1..Len(composites) |-> composites[j].value]
    IN  SelectSeq(values, LAMBDA v : v # null)

\* a variant that ranks every composite, the null ones too
calcRSScoresRankingAll(allStockIndicators, spyIndicators) ==
    LET composites == rsCompositesOf(allStockIndicators, spyIndicators)
        validValues == validValuesOf(composites)
        Step(j, scores) ==
            Put(scores, composites[j].key,
                Mul(percentileRank(composites[j].value, validValues), Num(100)))
    IN  [scores |-> For(Step, 1, Len(composites), <<>>), composites |-> composites]

calcRSScores(allStockIndicators, spyIndicators) ==
    LET composites == rsCompositesOf(allStockIndicators, spyIndicators)
        validValues == validValuesOf(composites)
        Step(j, scores) ==
            LET ticker == composites[j].key
                comp == composites[j].value
            IN  IF comp = null THEN Put(scores, ticker, Num(0))
                ELSE Put(scores, ticker,
                         Mul(percentileRank(comp, validValues), Num(100)))
    IN  [scores |-> For(Step, 1, Len(composites), <<>>), composites |-> composites]

\* (a - b) / b * 100
DistPct(a, b) == Mul(Div(Sub(a, b), b), Num(100))

\* a variant that takes the slope as a share of the latest sma50
calcTrendScoreSlopeOfLatest(ind) ==
    IF HasError(ind) \/ IsNull(ind.ema20) \/ IsNull(ind.sma50)
       \/ IsNull(ind.sma50_20ago)
    THEN Num(0)
    ELSE LET wide == <<<<Num(-5), Num(0)>>, <<Num(0), Frac(1, 2)>>, <<Num(5), Num(1)>>>>
             narrow == <<<<Num(-3), Num(0)>>, <<Num(0), Frac(1, 2)>>, <<Num(3), Num(1)>>>>
             t1 == gradientScore(DistPct(ind.close, ind.ema20), wide)
             t2 == gradientScore(DistPct(ind.close, ind.sma50), wide)
             t3 == gradientScore(DistPct(ind.ema20, ind.sma50), narrow)
             t4 == gradientScore(Mul(Div(Sub(ind.sma50, ind.sma50_20ago),
                                         ind.sma50), Num(100)), narrow)
         IN  Mul(Div(Add(Add(Add(t1, t2), t3), t4), Num(4)), Num(100))

calcTrendScore(ind) ==
    IF HasError(ind) \/ IsNull(ind.ema20) \/ IsNull(ind.sma50)
       \/ IsNull(ind.sma50_20ago)
    THEN Num(0)
    ELSE LET wide == <<<<Num(-5), Num(0)>>, <<Num(0), Frac(1, 2)>>, <<Num(5), Num(1)>>>>
             narrow == <<<<Num(-3), Num(0)>>, <<Num(0), Frac(1, 2)>>, <<Num(3), Num(1)>>>>
             t1 == gradientScore(DistPct(ind.close, ind.ema20), wide)
             t2 == gradientScore(DistPct(ind.close, ind.sma50), wide)
             t3 == gradientScore(DistPct(ind.ema20, ind.sma50), narrow)
             t4 == gradientScore(DistPct(ind.sma50, ind.sma50_20ago), narrow)
         IN  Mul(Div(Add(Add(Add(t1, t2), t3), t4), Num(4)), Num(100))

\* a variant that adds the RSI bonus before it scales the score down
calcPullbackScoreBonusFirst(ind) ==
    IF HasError(ind) \/ IsNull(ind.ema20) \/ IsNull(ind.sma50)
    THEN Num(0)
    ELSE LET dist20 == DistPct(ind.close, ind.ema20)
             base == gradientScore(dist20,
                        <<<<Num(-3), Num(0)>>, <<Num(0), Num(80)>>,
                          <<Frac(15, 10), Num(100)>>, <<Num(3), Num(90)>>,
                          <<Num(6), Num(60)>>, <<Num(10), Num(20)>>,
                          <<Num(15), Num(0)>>>>)
             dist50 == DistPct(ind.close, ind.sma50)
             raised == IF ~IsNull(ind.rsi14)
                       THEN Add(base, gradientScore(ind.rsi14,
                                    <<<<Num(35), Num(0)>>, <<Num(45), Num(5)>>,
                                      <<Num(55), Num(10)>>, <<Num(65), Num(5)>>,
                                      <<Num(75), Num(0)>>>>))
                       ELSE base
             score == IF Lt(dist50, Num(0))
                      THEN Mul(raised, gradientScore(dist50,
                                   <<<<Num(-5), Num(0)>>, <<Num(0), Num(1)>>>>))
                      ELSE raised
         IN  MathMin(MathMax(score, Num(0)), Num(100))

calcPullbackScore(ind) ==
    IF HasError(ind) \/ IsNull(ind.ema20) \/ IsNull(ind.sma50)
    THEN Num(0)
    ELSE LET dist20 == DistPct(ind.close, ind.ema20)
             base == gradientScore(dist20,
                        <<<<Num(-3), Num(0)>>, <<Num(0), Num(80)>>,
                          <<Frac(15, 10), Num(100)>>, <<Num(3), Num(90)>>,
                          <<Num(6), Num(60)>>, <<Num(10), Num(20)>>,
                          <<Num(15), Num(0)>>>>)
             dist50 == DistPct(ind.close, ind.sma50)
             faded == IF Lt(dist50, Num(0))
                      THEN Mul(base, gradientScore(dist50,
                                   <<<<Num(-5), Num(0)>>, <<Num(0), Num(1)>>>>))
                      ELSE base
             score == IF ~IsNull(ind.rsi14)
                      THEN Add(faded, gradientScore(ind.rsi14,
                                   <<<<Num(35), Num(0)>>, <<Num(45), Num(5)>>,
                                     <<Num(55), Num(10)>>, <<Num(65), Num(5)>>,
                                     <<Num(75), Num(0)>>>>))
                      ELSE faded
         IN  MathMin(MathMax(score, Num(0)), Num(100))

\* lines 174-187: the score before its floor
volatilityBeforeFloor(ind) ==
    LET atrPct == Mul(Div(ind.atr14, ind.close), Num(100))
        base == gradientScore(atrPct,
                   <<<<Num(0), Num(10)>>, <<Num(1), Num(50)>>,
                     <<Num(2), Num(90)>>, <<Num(3), Num(100)>>,
                     <<Num(4), Num(90)>>, <<Num(6), Num(60)>>,
                     <<Num(8), Num(30)>>, <<Num(10), Num(10)>>>>)
        score == IF ~IsNull(ind.avgVol20) /\ Lt(ind.avgVol20, Num(500000))
                 THEN Add(base, gradientScore(ind.avgVol20,
                              <<<<Num(0), Num(-40)>>, <<Num(200000), Num(-20)>>,
                                <<Num(500000), Num(0)>>>>))
                 ELSE base
    IN  score

\* a variant without the volume penalty
calcVolatilityScoreNoPenalty(ind) ==
    IF HasError(ind) \/ IsNull(ind.atr14)
    THEN Num(0)
    ELSE MathMax(gradientScore(Mul(Div(ind.atr14, ind.close), Num(100)),
                    <<<<Num(0), Num(10)>>, <<Num(1), Num(50)>>,
                      <<Num(2), Num(90)>>, <<Num(3), Num(100)>>,
                      <<Num(4), Num(90)>>, <<Num(6), Num(60)>>,
                      <<Num(8), Num(30)>>, <<Num(10), Num(10)>>>>), Num(0))

\* a variant that scores a set without an ATR: null / close * 100 is 0
calcVolatilityScoreOfNullAtr(ind) ==
    IF HasError(ind)
    THEN Num(0)
    ELSE IF IsNull(ind.atr14)
    THEN MathMax(volatilityBeforeFloor(
                     [close |-> ind.close, atr14 |-> Num(0),
                      avgVol20 |-> ind.avgVol20]), Num(0))
    ELSE MathMax(volatilityBeforeFloor(ind), Num(0))

\* a variant without the floor at 0
calcVolatilityScoreUnfloored(ind) ==
    IF HasError(ind) \/ IsNull(ind.atr14)
    THEN Num(0)
    ELSE volatilityBeforeFloor(ind)

calcVolatilityScore(ind) ==
    IF HasError(ind) \/ IsNull(ind.atr14)
    THEN Num(0)
    ELSE MathMax(volatilityBeforeFloor(ind), Num(0))

(***************************************************************************)
(* The numbers of JavaScript are IEEE 754 doubles: a quotient and a        *)
(* product are the exact ones rounded to 53 significant bits, ties to the  *)
(* even one.  The percentile rank and the RS score (scoring.js, lines 35   *)
(* and 71) are computed here to the last bit.  A natural number is a       *)
(* sequence of limbs, the least significant one first; a double is         *)
(* [m, k], standing for m / 2^k.                                           *)
(***************************************************************************)
LimbBits == 2 * 7
LimbBase == 2 ^ LimbBits

\* the limbs of a natural below LimbBase^2
Big(n) == IF n < LimbBase THEN <<n>> ELSE <<n % LimbBase, n \div LimbBase>>

\* without the zero limbs at the top
Trim(a) ==
    LET used == {j \in 1..Len(a) : a[j] # 0}
    IN  IF used = {} THEN <<0>>
        ELSE SubSeq(a, 1, CHOOSE j \in used : \A u \in used : u <= j)

\* a * m for a natural m up to LimbBase
BigTimes(a, m) ==
    LET Step(j, acc) ==
            LET t == a[j] * m + acc[2]
            IN  <<Append(acc[1], t % LimbBase), t \div LimbBase>>
        r == For(Step, 1, Len(a), <<<<>>, 0>>)
    IN  Trim(Append(r[1], r[2]))

\* the quotient and the remainder of a by a natural q from 1 to LimbBase
BigOver(a, q) ==
    LET Step(j, acc) ==
            LET t == acc[2] * LimbBase + a[Len(a) + 1 - j]
            IN  <<<<t \div q>> \o acc[1], t % q>>
        r == For(Step, 1, Len(a), <<<<>>, 0>>)
    IN  [quot |-> Trim(r[1]), rem |-> r[2]]

BigPlus(a, b) ==
    LET longest == IF Len(a) > Len(b) THEN Len(a) ELSE Len(b)
        Limb(x, j) == IF j <= Len(x) THEN x[j] ELSE 0
        Step(j, acc) ==
            LET t == Limb(a, j) + Limb(b, j) + acc[2]
            IN  <<Append(acc[1], t % LimbBase), t \div LimbBase>>
        r == For(Step, 1, longest, <<<<>>, 0>>)
    IN  Trim(Append(r[1], r[2]))

\* a <= b, for a and b without zero limbs at the top
BigLe(a, b) ==
    IF Len(a) # Len(b) THEN Len(a) < Len(b)
    ELSE LET apart == {j \in 1..Len(a) : a[j] # b[j]}
         IN  apart = {}
             \/ LET top == CHOOSE j \in apart : \A u \in apart : u <= j
                IN  a[top] < b[top]

\* a * 2^k
ShiftLeft(a, k) ==
    BigTimes([j \in 1..(k \div LimbBits) |-> 0] \o a, 2 ^ (k % LimbBits))

\* the number of bits of a, which has no zero limbs at the top
BitLen(a) ==
    LET top == a[Len(a)]
    IN  (Len(a) - 1) * LimbBits
        + (CHOOSE n \in 0..LimbBits : top < 2 ^ n /\ (n = 0 \/ top >= 2 ^ (n - 1)))

\* the quotient of a division by q, with its remainder, rounded to the
\* nearest natural, a tie to the even one
RoundHalfEven(division, q) ==
    IF 2 * division.rem > q
       \/ (2 * division.rem = q /\ division.quot[1] % 2 = 1)
    THEN BigPlus(division.quot, <<1>>)
    ELSE division.quot

\* p / q in doubles, for naturals p and q > 0 below 2^13
Float64Quotient(p, q) ==
    IF p = 0 THEN [m |-> <<0>>, k |-> 0]
    ELSE LET e == IF p >= q
                  THEN CHOOSE u \in 0..13 : q * 2 ^ u <= p /\ p < q * 2 ^ (u + 1)
                  ELSE -(CHOOSE d \in 1..13 :
                            p * 2 ^ d >= q /\ p * 2 ^ (d - 1) < q)
             k == 52 - e
         IN  [m |-> RoundHalfEven(BigOver(ShiftLeft(Big(p), k), q), q), k |-> k]

\* x * c in doubles, for a natural c from 1 to LimbBase
Float64Times(x, c) ==
    LET product == BigTimes(x.m, c)
        s == BitLen(product) - 53
    IN  IF s <= 0 THEN [m |-> product, k |-> x.k]
        ELSE [m |-> RoundHalfEven(BigOver(product, 2 ^ s), 2 ^ s), k |-> x.k - s]

\* the exact sum of doubles
ExactSum(xs) ==
    LET scale == CHOOSE k \in {xs[j].k : j \in 1..Len(xs)} :
                     \A j \in 1..Len(xs) : xs[j].k <= k
        Step(j, sum) == BigPlus(sum, ShiftLeft(xs[j].m, scale - xs[j].k))
    IN  [m |-> For(Step, 1, Len(xs), <<0>>), k |-> scale]

\* the double x is the natural n
IsNatural(x, n) == x.m = ShiftLeft(Big(n), x.k)

(***************************************************************************)
(* calculateAllScores(allStockBars, spyBars), step by step                 *)
(***************************************************************************)
VARIABLES
    allStockBars,    \* input: the object ticker -> bars, as entries
    spyBars,         \* input: the benchmark's bars
    pc,              \* where the call in progress stands ("idle": none)
    spyIndicators,   \* the locals of the call in progress
    allIndicators,
    rsScores,
    rsComposites,
    results,
    done,            \* entries the loop in progress has been through
    now,             \* the clock that new Date() reads
    outcomes,        \* what each finished call returned or threw, in order
    fn,              \* a helper function called on its own ("none": none),
    args,            \*   the arguments it is called with,
    ret,             \*   and what it returned
    route,           \* the analysis in progress: runAnalysis or the handler
    stocks,          \*   of POST /api/analyze ("none": none), its request,
    allBars,         \*   and its locals
    errors,
    validBars,
    fetchErrors,
    analysis,
    scoringCalls,    \* the arguments of every call of calculateAllScores
    response,        \* what the analysis returned, threw or sent
    rankingResults,  \* the rows of the database's tables
    portfolios,
    portfolioHoldings,
    portfolioSnapshots,
    callers          \* the calls of createPortfolioFromRanking in progress

vars == <<allStockBars, spyBars, pc, spyIndicators, allIndicators, rsScores,
          rsComposites, results, done, now, outcomes, fn, args, ret,
          route, stocks, allBars, errors, validBars, fetchErrors, analysis,
          scoringCalls, response, rankingResults, portfolios,
          portfolioHoldings, portfolioSnapshots, callers>>

request == <<route, stocks>>
server == <<allBars, errors, validBars, fetchErrors, analysis, scoringCalls,
            response>>
tables == <<rankingResults, portfolios, portfolioHoldings, portfolioSnapshots>>
database == <<tables, callers>>

inputs == <<allStockBars, spyBars>>
helper == <<fn, args, ret>>
locals == <<spyIndicators, allIndicators, rsScores, rsComposites, results, done>>

\* the most tickers in a batch, and the most calls in a behaviour
MaxTickers == 3
MaxCalls == 2

TickerNames == <<"AAPL", "MSFT", "NVDA", "TSLA", "AMZN", "META", "GOOG">>

Batches ==
    UNION {{[j \in 1..n |-> [key |-> TickerNames[j], value |-> f[j]]] :
               f \in [1..n -> TickerSeries]} : n \in 0..MaxTickers}

undefined == [undefined |-> TRUE]

\* no helper function is called on its own
NoHelper == fn = "none" /\ args = <<>> /\ ret = undefined

\* no analysis is in progress
NoAnalysis ==
    /\ route = "none"
    /\ stocks = <<>>
    /\ allBars = <<>>
    /\ errors = <<>>
    /\ validBars = <<>>
    /\ fetchErrors = <<>>
    /\ analysis = undefined
    /\ scoringCalls = <<>>
    /\ response = undefined

\* the database is empty and nothing calls it
NoDatabase ==
    /\ rankingResults = <<>>
    /\ portfolios = <<>>
    /\ portfolioHoldings = <<>>
    /\ portfolioSnapshots = <<>>
    /\ callers = <<>>

Init ==
    /\ allStockBars \in Batches
    /\ spyBars \in BenchmarkSeries
    /\ pc = "idle"
    /\ spyIndicators = undefined
    /\ allIndicators = <<>>
    /\ rsScores = <<>>
    /\ rsComposites = <<>>
    /\ results = <<>>
    /\ done = 0
    /\ now = 0
    /\ outcomes = <<>>
    /\ NoHelper
    /\ NoAnalysis
    /\ NoDatabase

\* a variant in which a call starts on what the call before it left in results
InvokeOnOldResults ==
    /\ pc = "idle"
    /\ Len(outcomes) < MaxCalls
    /\ pc' = "benchmark"
    /\ spyIndicators' = undefined
    /\ allIndicators' = <<>>
    /\ rsScores' = <<>>
    /\ rsComposites' = <<>>
    /\ done' = 0
    /\ UNCHANGED <<request, server, database, helper, inputs, results, now, outcomes>>

\* the call starts: its locals are new
Invoke ==
    /\ pc = "idle"
    /\ Len(outcomes) < MaxCalls
    /\ pc' = "benchmark"
    /\ spyIndicators' = undefined
    /\ allIndicators' = <<>>
    /\ rsScores' = <<>>
    /\ rsComposites' = <<>>
    /\ results' = <<>>
    /\ done' = 0
    /\ UNCHANGED <<request, server, database, helper, inputs, now, outcomes>>

\* lines 198-201: the benchmark's indicators, and the throw when they fail
BenchmarkFails ==
    /\ pc = "benchmark"
    /\ HasError(computeIndicators(spyBars))
    /\ spyIndicators' = computeIndicators(spyBars)
    /\ outcomes' = Append(outcomes,
           [thrown |-> <<"SPY data error: ", spyIndicators'.error>>])
    /\ pc' = "idle"
    /\ UNCHANGED <<request, server, database, helper, inputs, allIndicators, rsScores, rsComposites, results, done, now>>

BenchmarkComputed ==
    /\ pc = "benchmark"
    /\ ~HasError(computeIndicators(spyBars))
    /\ spyIndicators' = computeIndicators(spyBars)
    /\ pc' = "indicators"
    /\ done' = 0
    /\ UNCHANGED <<request, server, database, helper, inputs, allIndicators, rsScores, rsComposites, results, now,
                   outcomes>>

\* a variant in which computeIndicators takes the bars out of the batch
TickerIndicatorsTakingBars ==
    /\ pc = "indicators"
    /\ done < Len(allStockBars)
    /\ allIndicators' = Put(allIndicators, allStockBars[done + 1].key,
                            computeIndicators(allStockBars[done + 1].value))
    /\ allStockBars' = Put(allStockBars, allStockBars[done + 1].key, nullBars)
    /\ done' = done + 1
    /\ UNCHANGED <<request, server, database, helper, spyBars, pc, spyIndicators, rsScores, rsComposites,
                   results, now, outcomes>>

\* lines 204-206: one turn of the loop over Object.entries(allStockBars)
TickerIndicators ==
    /\ pc = "indicators"
    /\ done < Len(allStockBars)
    /\ allIndicators' = Put(allIndicators, allStockBars[done + 1].key,
                            computeIndicators(allStockBars[done + 1].value))
    /\ done' = done + 1
    /\ UNCHANGED <<request, server, database, helper, inputs, pc, spyIndicators, rsScores, rsComposites, results,
                   now, outcomes>>

\* a variant that ranks as soon as all tickers but the last have indicators
RelativeStrengthBeforeLast ==
    /\ pc = "indicators"
    /\ done >= Len(allStockBars) - 1
    /\ rsScores' = calcRSScores(allIndicators, spyIndicators).scores
    /\ rsComposites' = calcRSScores(allIndicators, spyIndicators).composites
    /\ pc' = "scoring"
    /\ done' = 0
    /\ UNCHANGED <<request, server, database, helper, inputs, spyIndicators, allIndicators, results, now, outcomes>>

\* line 209, once the loop is through
RelativeStrength ==
    /\ pc = "indicators"
    /\ done >= Len(allStockBars)
    /\ rsScores' = calcRSScores(allIndicators, spyIndicators).scores
    /\ rsComposites' = calcRSScores(allIndicators, spyIndicators).composites
    /\ pc' = "scoring"
    /\ done' = 0
    /\ UNCHANGED <<request, server, database, helper, inputs, spyIndicators, allIndicators, results, now, outcomes>>

\* lines 214-225: the record of a ticker whose indicators failed
ErrorRecord(ticker, ind) ==
    [ticker |-> ticker, error |-> ind.error, finalScore |-> Num(0),
     rsScore |-> Num(0), trendScore |-> Num(0), pullbackScore |-> Num(0),
     volatilityScore |-> Num(0)]

\* x != null ? Math.round(x * 100) / 100 : null
Round2OrNull(x) == IF ~IsNull(x) THEN Round2(x) ELSE null

\* rsScores[ticker] || 0
rsScoreOf(scores, ticker) ==
    IF HasKey(scores, ticker) /\ Truthy(Get(scores, ticker))
    THEN Get(scores, ticker) ELSE Num(0)

\* a variant that weighs the pullback at 0.25 and the volatility at 0.10
finalScoreEvenWeights(rsScore, trendScore, pullbackScore, volatilityScore) ==
    Add(Add(Add(Mul(Frac(40, 100), rsScore), Mul(Frac(25, 100), trendScore)),
            Mul(Frac(25, 100), pullbackScore)),
        Mul(Frac(10, 100), volatilityScore))

\* lines 232-236
finalScoreOf(rsScore, trendScore, pullbackScore, volatilityScore) ==
    Add(Add(Add(Mul(Frac(40, 100), rsScore), Mul(Frac(25, 100), trendScore)),
            Mul(Frac(20, 100), pullbackScore)),
        Mul(Frac(15, 100), volatilityScore))

\* lines 227-263: the record of a ticker with indicators
ScoredRecord(ticker, ind, scores, composites) ==
    LET rsScore == rsScoreOf(scores, ticker)
        trendScore == calcTrendScore(ind)
        pullbackScore == calcPullbackScore(ind)
        volatilityScore == calcVolatilityScore(ind)
        finalScore == finalScoreOf(rsScore, trendScore, pullbackScore,
                                   volatilityScore)
        dist20 == IF Truthy(ind.ema20) THEN DistPct(ind.close, ind.ema20) ELSE null
        dist50 == IF Truthy(ind.sma50) THEN DistPct(ind.close, ind.sma50) ELSE null
        atrPct == IF Truthy(ind.atr14)
                  THEN Mul(Div(ind.atr14, ind.close), Num(100)) ELSE null
    IN  [ticker |-> ticker,
         finalScore |-> Round2(finalScore),
         rsScore |-> Round2(rsScore),
         rsComposite |-> IF HasKey(composites, ticker)
                         THEN Round2OrNull(Get(composites, ticker)) ELSE null,
         trendScore |-> Round2(trendScore),
         pullbackScore |-> Round2(pullbackScore),
         volatilityScore |-> Round2(volatilityScore),
         indicators |->
             [close |-> Round2(ind.close),
              ema20 |-> Round2OrNull(ind.ema20),
              sma50 |-> Round2OrNull(ind.sma50),
              rsi14 |-> Round2OrNull(ind.rsi14),
              atr14 |-> Round2OrNull(ind.atr14),
              atrPct |-> Round2OrNull(atrPct),
              dist20 |-> Round2OrNull(dist20),
              dist50 |-> Round2OrNull(dist50),
              return1m |-> Round2OrNull(ind.return1m),
              return3m |-> Round2OrNull(ind.return3m),
              avgVol20 |-> IF ~IsNull(ind.avgVol20)
                           THEN MathRound(ind.avgVol20) ELSE null]]

\* a variant that pushes nothing for a ticker whose indicators failed
recordOfScoredOnly(ticker, ind, scores, composites) ==
    IF HasError(ind) THEN <<>>
    ELSE <<ScoredRecord(ticker, ind, scores, composites)>>

\* lines 213-264: what one turn of the loop pushes
recordOf(ticker, ind, scores, composites) ==
    IF HasError(ind) THEN <<ErrorRecord(ticker, ind)>>
    ELSE <<ScoredRecord(ticker, ind, scores, composites)>>

ScoreTicker ==
    /\ pc = "scoring"
    /\ done < Len(allIndicators)
    /\ results' = results \o recordOf(allIndicators[done + 1].key,
                                      allIndicators[done + 1].value,
                                      rsScores, rsComposites)
    /\ done' = done + 1
    /\ UNCHANGED <<request, server, database, helper, inputs, pc, spyIndicators, allIndicators, rsScores,
                   rsComposites, now, outcomes>>

\* a variant that sorts by rising finalScore
byFinalScoreAscending(a, b) == Lt(Sub(a.finalScore, b.finalScore), Num(0))

\* (a, b) => b.finalScore - a.finalScore is negative
byFinalScoreDescending(a, b) == Lt(Sub(b.finalScore, a.finalScore), Num(0))

\* a variant that leaves the records in the order of the input
unsorted(arr) == arr

\* a variant that puts equal records in the reverse of the order they came in
sortResultsTiesReversed(arr) ==
    StableSort([j \in 1..Len(arr) |-> arr[Len(arr) + 1 - j]],
               byFinalScoreDescending)

\* line 267
sortResults(arr) == StableSort(arr, byFinalScoreDescending)

SortResults ==
    /\ pc = "scoring"
    /\ done >= Len(allIndicators)
    /\ results' = sortResults(results)
    /\ pc' = "ranking"
    /\ UNCHANGED <<request, server, database, helper, inputs, spyIndicators, allIndicators, rsScores, rsComposites,
                   done, now, outcomes>>

\* lines 270-272: r.rank = i + 1 for every record
addRanks(arr) ==
    [j \in 1..Len(arr) |->
        [f \in DOMAIN arr[j] \cup {"rank"} |->
            IF f = "rank" THEN j ELSE arr[j][f]]]

AssignRanks ==
    /\ pc = "ranking"
    /\ results' = addRanks(results)
    /\ pc' = "returning"
    /\ UNCHANGED <<request, server, database, helper, inputs, spyIndicators, allIndicators, rsScores, rsComposites,
                   done, now, outcomes>>

\* lines 274-281
Return ==
    /\ pc = "returning"
    /\ outcomes' = Append(outcomes,
           [results |-> results,
            spyData |-> [return1m |-> Round2(spyIndicators.return1m),
                         return3m |-> Round2(spyIndicators.return3m)],
            analyzedAt |-> now])
    /\ now' = now + 1
    /\ pc' = "idle"
    /\ UNCHANGED <<request, server, database, helper, inputs, locals>>

Next ==
    \/ Invoke
    \/ BenchmarkFails
    \/ BenchmarkComputed
    \/ TickerIndicators
    \/ RelativeStrength
    \/ ScoreTicker
    \/ SortResults
    \/ AssignRanks
    \/ Return

Spec == Init /\ [][Next]_vars

(***************************************************************************)
(* The contract of calculateAllScores, stated over what the calls of a     *)
(* behaviour returned or threw                                             *)
(***************************************************************************)
\* a series that is missing or has fewer than 80 bars
IsShort(bars) == IsNullBars(bars) \/ Len(bars) < 80

Returned(k) == "results" \in DOMAIN outcomes[k]
IsErrorRecord(r) == "error" \in DOMAIN r
ScoresOf(r) ==
    <<r.finalScore, r.rsScore, r.trendScore, r.pullbackScore, r.volatilityScore>>

\* C1: when the benchmark series is missing or has fewer than 80 bars, every
\* call ends in the fatal error: it never gets past the benchmark's
\* indicators, it produces no result record for any ticker, and its outcome
\* is the thrown error and nothing else
C1_BenchmarkErrorIsFatal ==
    IsShort(spyBars) =>
        /\ pc \in {"idle", "benchmark"}
        /\ results = <<>>
        /\ \A k \in 1..Len(outcomes) : DOMAIN outcomes[k] = {"thrown"}

\* a call has thrown on a short benchmark although a ticker had enough bars
C1_Witness ==
    /\ IsShort(spyBars)
    /\ Len(outcomes) > 0
    /\ \E j \in 1..Len(allStockBars) : ~IsShort(allStockBars[j].value)

\* C2: with a benchmark of at least 80 bars no call throws, the results hold
\* exactly one record per input ticker, and the record of a ticker whose
\* series is missing or has fewer than 80 bars carries an error field and has
\* its five scores equal to 0
C2_FailedTickersAreReported ==
    ~IsShort(spyBars) =>
        \A k \in 1..Len(outcomes) :
            /\ Returned(k)
            /\ LET res == outcomes[k].results
               IN  /\ Len(res) = Len(allStockBars)
                   /\ \A j \in 1..Len(allStockBars) :
                        LET own == {r \in 1..Len(res) :
                                       res[r].ticker = allStockBars[j].key}
                        IN  /\ Cardinality(own) = 1
                            /\ IsShort(allStockBars[j].value) =>
                                 \A r \in own :
                                    /\ IsErrorRecord(res[r])
                                    /\ \A n \in 1..5 : ScoresOf(res[r])[n] = Num(0)

\* a call has returned for a batch with a failed ticker and a scored one
C2_Witness ==
    /\ ~IsShort(spyBars)
    /\ \E k \in 1..Len(outcomes) : Returned(k)
    /\ \E j \in 1..Len(allStockBars) : IsShort(allStockBars[j].value)
    /\ \E j \in 1..Len(allStockBars) : ~IsShort(allStockBars[j].value)

\* C3: in the results a call returns, finalScore never increases from one
\* record to the next, and the record at 1-based position r has rank r (the
\* code's 0-based position i has rank i + 1), error records included
C3_SortedAndRanked ==
    \A k \in 1..Len(outcomes) :
        Returned(k) =>
            LET res == outcomes[k].results
            IN  /\ \A r \in 1..Len(res) : res[r].rank = r
                /\ \A r \in 1..(Len(res) - 1) :
                      Ge(res[r].finalScore, res[r + 1].finalScore)

\* a call has returned three records of falling finalScore, an error record
\* among them, for a batch that came in another order
C3_Witness ==
    \E k \in 1..Len(outcomes) :
        /\ Returned(k)
        /\ LET res == outcomes[k].results
           IN  /\ Len(res) = 3
               /\ Gt(res[1].finalScore, res[2].finalScore)
               /\ Gt(res[2].finalScore, res[3].finalScore)
               /\ IsErrorRecord(res[3])
               /\ res[1].ticker = allStockBars[3].key

InRange(x) == Le(Num(0), x) /\ Le(x, Num(100))

\* C5: in every record a call returns, error record or not, each of
\* finalScore, rsScore, trendScore, pullbackScore and volatilityScore lies in
\* the closed range 0..100
C5_ScoresInRange ==
    \A k \in 1..Len(outcomes) :
        Returned(k) =>
            \A r \in 1..Len(outcomes[k].results) :
                \A n \in 1..5 : InRange(ScoresOf(outcomes[k].results[r])[n])

\* a call has returned a scored record whose volatility score was floored at 0
\* and an error record
C5_Witness ==
    \E k \in 1..Len(outcomes) :
        /\ Returned(k)
        /\ \E r \in 1..Len(outcomes[k].results) :
             IsErrorRecord(outcomes[k].results[r])
        /\ \E r \in 1..Len(outcomes[k].results) :
             /\ ~IsErrorRecord(outcomes[k].results[r])
             /\ outcomes[k].results[r].volatilityScore = Num(0)
             /\ Lt(volatilityBeforeFloor(computeIndicators(
                       Get(allStockBars, outcomes[k].results[r].ticker))),
                   Num(0))

\* 0.40*rs + 0.25*trend + 0.20*pullback + 0.15*volatility
Weighted(rs, trend, pullback, volatility) ==
    Add(Add(Add(Mul(Frac(40, 100), rs), Mul(Frac(25, 100), trend)),
            Mul(Frac(20, 100), pullback)),
        Mul(Frac(15, 100), volatility))

WeightedReported(r) ==
    Weighted(r.rsScore, r.trendScore, r.pullbackScore, r.volatilityScore)

\* C6 as the specification states it: the finalScore of every non-error
\* record is the weighted sum of the four sub-scores reported in that record
C6_FinalScoreOfReportedScores ==
    pc = "returning" =>
        \A r \in 1..Len(results) :
            ~IsErrorRecord(results[r]) =>
                results[r].finalScore = WeightedReported(results[r])

\* C6: the finalScore of every non-error record is the weighted sum
\* 0.40*rs + 0.25*trend + 0.20*pullback + 0.15*volatility of the four
\* sub-scores as computed, rounded to two decimals; each reported sub-score is
\* the computed one rounded to two decimals on its own, so the reported
\* finalScore is within 0.01 of the weighted sum of the reported sub-scores
C6_FinalScoreIsRoundedWeightedSum ==
    pc = "returning" =>
        \A r \in 1..Len(results) :
            ~IsErrorRecord(results[r]) =>
                LET ind == Get(allIndicators, results[r].ticker)
                    rs == rsScoreOf(rsScores, results[r].ticker)
                    trend == calcTrendScore(ind)
                    pullback == calcPullbackScore(ind)
                    volatility == calcVolatilityScore(ind)
                IN  /\ results[r].finalScore =
                           Round2(Weighted(rs, trend, pullback, volatility))
                    /\ results[r].rsScore = Round2(rs)
                    /\ results[r].trendScore = Round2(trend)
                    /\ results[r].pullbackScore = Round2(pullback)
                    /\ results[r].volatilityScore = Round2(volatility)
                    /\ Le(MathAbs(Sub(results[r].finalScore,
                                      WeightedReported(results[r]))),
                          Frac(1, 100))

\* a call is about to return a record whose finalScore is not the weighted sum
\* of the sub-scores it reports
C6_Witness ==
    /\ pc = "returning"
    /\ \E r \in 1..Len(results) :
         /\ ~IsErrorRecord(results[r])
         /\ results[r].finalScore # WeightedReported(results[r])

\* C7: the calls of a behaviour are given the same ticker and benchmark
\* series, and they all end the same way: with the same results (the same
\* records, scores, order and ranks) and the same benchmark returns, or with
\* the same error, whatever calls came before
C7_Deterministic ==
    \A k, n \in 1..Len(outcomes) :
        /\ Returned(k) <=> Returned(n)
        /\ Returned(k) =>
             /\ outcomes[k].results = outcomes[n].results
             /\ outcomes[k].spyData = outcomes[n].spyData
        /\ ~Returned(k) => outcomes[k] = outcomes[n]

\* two calls have returned records for the same batch, at different times
C7_Witness ==
    /\ Len(outcomes) = 2
    /\ Returned(1) /\ Returned(2)
    /\ Len(outcomes[2].results) >= 2
    /\ outcomes[1].analyzedAt # outcomes[2].analyzedAt

(***************************************************************************)
(* calcRSScores on its own: the relative-strength scorer applied to maps   *)
(* of indicator sets, of which only error, return1m and return3m are read  *)
(***************************************************************************)
\* the most tickers in a map of indicator sets
MaxIndicatorSets == 4

\* a failed set, sets without one of the returns, sets with both
IndicatorSets ==
    {[error |-> InsufficientData],
     [return1m |-> null, return3m |-> Num(2)],
     [return1m |-> Num(2), return3m |-> null]}
    \cup {[return1m |-> Num(v), return3m |-> Num(v)] : v \in 1..3}

IndicatorMaps ==
    UNION {{[j \in 1..n |-> [key |-> TickerNames[j], value |-> f[j]]] :
               f \in [1..n -> IndicatorSets]} : n \in 0..MaxIndicatorSets}

BenchmarkReturns ==
    {[return1m |-> Num(0), return3m |-> Num(0)],
     [return1m |-> Num(1), return3m |-> Num(-1)]}

InitRS ==
    /\ allStockBars = <<>>
    /\ spyBars = nullBars
    /\ pc = "rs"
    /\ spyIndicators \in BenchmarkReturns
    /\ allIndicators \in IndicatorMaps
    /\ rsScores = <<>>
    /\ rsComposites = <<>>
    /\ results = <<>>
    /\ done = 0
    /\ now = 0
    /\ outcomes = <<>>
    /\ NoHelper
    /\ NoAnalysis
    /\ NoDatabase

\* const { scores, composites } = calcRSScores(allIndicators, spyIndicators)
CallRS ==
    /\ pc = "rs"
    /\ rsScores' = calcRSScores(allIndicators, spyIndicators).scores
    /\ rsComposites' = calcRSScores(allIndicators, spyIndicators).composites
    /\ pc' = "rs-done"
    /\ UNCHANGED <<request, server, database, helper, inputs, spyIndicators, allIndicators, results, done, now,
                   outcomes>>

NextRS == CallRS

SpecRS == InitRS /\ [][NextRS]_vars

\* an indicator set that is an error or lacks return1m or return3m
Lacking(ind) == HasError(ind) \/ ind.return1m = null \/ ind.return3m = null

\* obj without its j-th entry
Without(obj, j) == SubSeq(obj, 1, j - 1) \o SubSeq(obj, j + 1, Len(obj))

\* C8: a ticker whose indicator set is an error or lacks return1m or
\* return3m gets composite null and RS score 0, and the scores of the other
\* tickers are the ones calcRSScores gives for the map without that ticker
C8_NullCompositesAreExcluded ==
    pc = "rs-done" =>
        \A j \in 1..Len(allIndicators) :
            Lacking(allIndicators[j].value) =>
                /\ rsComposites[j] = [key |-> allIndicators[j].key, value |-> null]
                /\ rsScores[j] = [key |-> allIndicators[j].key, value |-> Num(0)]
                /\ calcRSScores(Without(allIndicators, j), spyIndicators).scores
                       = Without(rsScores, j)

\* the scorer has run on a map with a failed set, a set without a return and
\* two sets of different scores
C8_Witness ==
    /\ pc = "rs-done"
    /\ \E j \in 1..Len(allIndicators) : HasError(allIndicators[j].value)
    /\ \E j \in 1..Len(allIndicators) :
         ~HasError(allIndicators[j].value) /\ Lacking(allIndicators[j].value)
    /\ \E j, m \in 1..Len(rsScores) :
         Lt(Num(0), rsScores[j].value) /\ Lt(rsScores[j].value, rsScores[m].value)

\* the non-null composites: a permutation of 1, 2, 2, 3
Is1223(values) ==
    /\ Len(values) = 4
    /\ Cardinality({j \in 1..4 : values[j] = Num(1)}) = 1
    /\ Cardinality({j \in 1..4 : values[j] = Num(2)}) = 2
    /\ Cardinality({j \in 1..4 : values[j] = Num(3)}) = 1

\* C9: for a value v of a non-empty population S, percentileRank(v, S) is
\* (the number of s in S below v + half the number of s in S equal to v) / |S|,
\* in whatever order S comes, and the RS score is 100 times that; in
\* S = {1, 2, 2, 3} the rank of 2 is 0.5 and its RS score is 50
C9_PercentileRank ==
    pc = "rs-done" =>
        LET valid == {j \in 1..Len(rsComposites) : rsComposites[j].value # null}
            S == validValuesOf(rsComposites)
        IN  \A j \in valid :
                LET v == rsComposites[j].value
                    below == Cardinality({m \in valid :
                                             Lt(rsComposites[m].value, v)})
                    equal == Cardinality({m \in valid :
                                             rsComposites[m].value = v})
                    rank == Div(Add(Num(below), Mul(Frac(1, 2), Num(equal))),
                                Num(Cardinality(valid)))
                IN  /\ percentileRank(v, S) = rank
                    /\ rsScores[j].value = Mul(rank, Num(100))
                    /\ Is1223(S) /\ v = Num(2) =>
                         /\ percentileRank(v, S) = Frac(1, 2)
                         /\ rsScores[j].value = Num(50)

\* the scorer has run on the composites 3, 2, 1, 2, and scored both 2s at 50
C9_Witness ==
    /\ pc = "rs-done"
    /\ Len(rsComposites) = 4
    /\ [j \in 1..4 |-> rsComposites[j].value] = <<Num(3), Num(2), Num(1), Num(2)>>
    /\ rsScores[2].value = Num(50)
    /\ rsScores[4].value = Num(50)

\* C10: when every ticker's composite is null, calcRSScores returns score 0
\* for every ticker; and no score it ever returns is NaN or infinite
C10_EmptyValidSet ==
    pc = "rs-done" =>
        /\ \A j \in 1..Len(rsScores) : IsFinite(rsScores[j].value)
        /\ (\A j \in 1..Len(allIndicators) : Lacking(allIndicators[j].value)) =>
              /\ Len(rsScores) = Len(allIndicators)
              /\ \A j \in 1..Len(allIndicators) :
                    rsScores[j] = [key |-> allIndicators[j].key, value |-> Num(0)]

\* the scorer has run on three sets without a composite
C10_Witness ==
    /\ pc = "rs-done"
    /\ Len(allIndicators) = 3
    /\ \A j \in 1..3 : Lacking(allIndicators[j].value)
    /\ Len(rsScores) = 3

(***************************************************************************)
(* The helper functions on their own: each call applies one function to    *)
(* arguments drawn from a bounded set                                      *)
(***************************************************************************)
ComputeIndicatorsCalls ==
    {[fn |-> "computeIndicators", args |-> <<bars>>] : bars \in IndicatorSeries}

\* the most breakpoints in a list
MaxBreakpoints == 3

\* the lists of at most MaxBreakpoints breakpoints, ascending by x
BreakpointLists ==
    UNION {{[j \in 1..n |-> <<Num(b[j][1]), Num(b[j][2])>>] :
               b \in {c \in [1..n -> {0, 2, 5, 8} \X {0, 10, 100}] :
                         \A j \in 1..(n - 1) : c[j][1] < c[j + 1][1]}} :
           n \in 0..MaxBreakpoints}

\* -1, -0.5, 0, ..., 9 and two values far out
GradientValues == {Frac(k, 2) : k \in -2..18} \cup {Num(-100), Num(100)}

GradientScoreCalls ==
    {[fn |-> "gradientScore", args |-> <<v, bps>>] :
        v \in GradientValues, bps \in BreakpointLists}

\* the most closes in a list
MaxCloses == 5

\* the lists of at most MaxCloses closes of 1, 2 or 3, and 1, 2, 3, 4, 5
CloseLists ==
    UNION {{[j \in 1..n |-> Num(c[j])] : c \in [1..n -> 1..3]} :
           n \in 0..MaxCloses}
    \cup {[j \in 1..5 |-> Num(j)]}

EmaCalls ==
    {[fn |-> "ema", args |-> <<closes, period>>] :
        closes \in CloseLists, period \in 1..3}

\* the most price changes after the first 14
MaxLaterChanges == 2

\* the first 14 price changes: rising, falling, flat, one up and one down in
\* turn, two falls in every three
FirstChanges ==
    {[j \in 1..14 |-> 1], [j \in 1..14 |-> -1], [j \in 1..14 |-> 0],
     [j \in 1..14 |-> IF j % 2 = 1 THEN 2 ELSE -1],
     [j \in 1..14 |-> IF j % 3 = 1 THEN 3 ELSE -1]}

LaterChanges == UNION {[1..n -> {-2, 0, 1}] : n \in 0..MaxLaterChanges}

\* the closes that start at 100 and move by the changes
RECURSIVE ClosesOf(_)
ClosesOf(changes) ==
    IF changes = <<>> THEN <<Num(100)>>
    ELSE LET before == ClosesOf(SubSeq(changes, 1, Len(changes) - 1))
         IN  Append(before,
                    Add(before[Len(before)], Num(changes[Len(changes)])))

RsiCalls ==
    {[fn |-> "rsi", args |-> <<ClosesOf(first \o later), 14>>] :
        first \in FirstChanges, later \in LaterChanges}
    \cup {[fn |-> "rsi", args |-> <<ClosesOf([j \in 1..n |-> 1]), 14>>] :
             n \in {0, 13}}

MaxOffset == 2
SmaAtCalls ==
    {[fn |-> "smaAt", args |-> <<closes, period, offset>>] :
        closes \in CloseLists, period \in 1..3, offset \in 0..MaxOffset}

\* an IndicatorSet of a quiet stock at 100
QuietSet ==
    [close |-> Num(100), ema20 |-> Num(100), sma50 |-> Num(100),
     sma50_20ago |-> Num(100), rsi14 |-> Num(50), atr5 |-> Num(2),
     atr14 |-> Num(2), atr20 |-> Num(2), avgVol20 |-> Num(600000),
     return1m |-> Num(0), return3m |-> Num(0)]

\* the numbers vs and null
OrNull(vs) == {Num(v) : v \in vs} \cup {null}

\* sets in which the close and the averages lie below, within and above the
\* ranges of the trend gradients, sets lacking an average, a failed set
TrendSets ==
    {[QuietSet EXCEPT !.close = Num(c), !.ema20 = e, !.sma50 = s,
                      !.sma50_20ago = a] :
        c \in {94, 100, 102, 106}, e \in OrNull({96, 100, 102, 104}),
        s \in OrNull({100}), a \in OrNull({96, 98, 100, 104})}
    \cup {[error |-> InsufficientData]}

TrendScoreCalls == {[fn |-> "calcTrendScore", args |-> <<ind>>] : ind \in TrendSets}

\* sets in which the close lies from 4% below to 16% above an ema20 of 200,
\* at, just below and far below sma50, with an RSI on each part of the bonus
\* curve or none, sets lacking an average, a failed set
PullbackSets ==
    {[QuietSet EXCEPT !.close = Num(c), !.ema20 = e, !.sma50 = s,
                      !.rsi14 = r] :
        c \in {190, 192, 198, 200, 203, 204, 210, 216, 224, 232},
        e \in OrNull({200}), s \in OrNull({200, 205, 250}),
        r \in OrNull({30, 40, 55, 70, 80})}
    \cup {[error |-> InsufficientData]}

PullbackScoreCalls ==
    {[fn |-> "calcPullbackScore", args |-> <<ind>>] : ind \in PullbackSets}

\* sets with an ATR from 0% to 12% of the close or none, on a volume from 0
\* to 600000 or none, a failed set
VolatilitySets ==
    {[QuietSet EXCEPT !.atr14 = a, !.avgVol20 = v] :
        a \in OrNull({0, 1, 3, 5, 12}),
        v \in OrNull({0, 100000, 200000, 350000, 499999, 500000, 600000})}
    \cup {[error |-> InsufficientData]}

VolatilityScoreCalls ==
    {[fn |-> "calcVolatilityScore", args |-> <<ind>>] : ind \in VolatilitySets}

\* the helper is called as one of the calls
OneOf(calls) == \E c \in calls : fn = c.fn /\ args = c.args

HelperCall ==
    \/ OneOf(ComputeIndicatorsCalls)
    \/ OneOf(GradientScoreCalls)
    \/ OneOf(EmaCalls)
    \/ OneOf(RsiCalls)
    \/ OneOf(SmaAtCalls)
    \/ OneOf(TrendScoreCalls)
    \/ OneOf(PullbackScoreCalls)
    \/ OneOf(VolatilityScoreCalls)

InitFn ==
    /\ allStockBars = <<>>
    /\ spyBars = nullBars
    /\ pc = "call"
    /\ spyIndicators = undefined
    /\ allIndicators = <<>>
    /\ rsScores = <<>>
    /\ rsComposites = <<>>
    /\ results = <<>>
    /\ done = 0
    /\ now = 0
    /\ outcomes = <<>>
    /\ HelperCall
    /\ ret = undefined
    /\ NoAnalysis
    /\ NoDatabase

\* the call of fn returns value
Returns(name, value) ==
    /\ pc = "call"
    /\ fn = name
    /\ ret' = value
    /\ pc' = "returned"
    /\ UNCHANGED <<request, server, database, inputs, locals, now, outcomes, fn,
                   args>>

CallComputeIndicators ==
    Returns("computeIndicators", computeIndicators(args[1]))

CallGradientScore ==
    Returns("gradientScore", gradientScore(args[1], args[2]))

CallEma == Returns("ema", ema(args[1], args[2]))

CallRsi == Returns("rsi", rsi(args[1], args[2]))

CallSmaAt == Returns("smaAt", smaAt(args[1], args[2], args[3]))

CallCalcTrendScore == Returns("calcTrendScore", calcTrendScore(args[1]))

CallCalcPullbackScore ==
    Returns("calcPullbackScore", calcPullbackScore(args[1]))

CallCalcVolatilityScore ==
    Returns("calcVolatilityScore", calcVolatilityScore(args[1]))

NextFn ==
    \/ CallComputeIndicators
    \/ CallGradientScore
    \/ CallEma
    \/ CallRsi
    \/ CallSmaAt
    \/ CallCalcTrendScore
    \/ CallCalcPullbackScore
    \/ CallCalcVolatilityScore

SpecFn == InitFn /\ [][NextFn]_vars

\* the call of the helper function name has returned
Returned1(name) == pc = "returned" /\ fn = name

\* the fields of a full IndicatorSet
IndicatorFields ==
    {"close", "ema20", "sma50", "sma50_20ago", "rsi14", "atr5", "atr14",
     "atr20", "avgVol20", "return1m", "return3m"}

\* C11: computeIndicators returns the error marker, an error field and no
\* other, for a missing series and for every series of fewer than 80 bars,
\* and a full IndicatorSet without an error field for every series of 80 bars
\* or more
C11_ErrorMarkerBelow80Bars ==
    Returned1("computeIndicators") =>
        IF IsNullBars(args[1]) \/ Len(args[1]) < 80
        THEN DOMAIN ret = {"error"} /\ ret.error = InsufficientData
        ELSE /\ DOMAIN ret = IndicatorFields
             /\ \A f \in IndicatorFields : ret[f] # null

\* computeIndicators has returned a full IndicatorSet for a series of 80 bars
C11_Witness ==
    /\ Returned1("computeIndicators")
    /\ ~IsNullBars(args[1])
    /\ Len(args[1]) = 80
    /\ "error" \notin DOMAIN ret

\* C12: for a non-empty list of breakpoints ascending by x, each x above the
\* one before, gradientScore(v, bps) is the first breakpoint's y whenever v is
\* at most the first x, and the last breakpoint's y whenever v is at least
\* the last x
C12_ClampsOutsideBreakpoints ==
    Returned1("gradientScore") /\ Len(args[2]) >= 1 =>
        LET v == args[1]
            bps == args[2]
        IN  /\ Le(v, bps[1][1]) => ret = bps[1][2]
            /\ Ge(v, bps[Len(bps)][1]) => ret = bps[Len(bps)][2]

\* gradientScore(-100, [[0, 10], [5, 100]]) has returned 10
C12_Witness ==
    /\ Returned1("gradientScore")
    /\ args = <<Num(-100), <<<<Num(0), Num(10)>>, <<Num(5), Num(100)>>>>>>
    /\ ret = Num(10)

\* C13: for v strictly between the first and the last breakpoint's x there is
\* a pair of neighbours (x0, y0), (x1, y1) with x0 < v <= x1, and gradientScore
\* returns y0 + (v - x0) / (x1 - x0) * (y1 - y0); at a breakpoint's x that is
\* neither the first nor the last one it returns that breakpoint's y
C13_InterpolatesBetweenBreakpoints ==
    Returned1("gradientScore") /\ Len(args[2]) >= 2 =>
        LET v == args[1]
            bps == args[2]
            n == Len(bps)
            around == {k \in 2..n : Lt(bps[k - 1][1], v) /\ Le(v, bps[k][1])}
        IN  Lt(bps[1][1], v) /\ Lt(v, bps[n][1]) =>
                /\ around # {}
                /\ \A k \in around :
                      ret = Add(bps[k - 1][2],
                                Mul(Div(Sub(v, bps[k - 1][1]),
                                        Sub(bps[k][1], bps[k - 1][1])),
                                    Sub(bps[k][2], bps[k - 1][2])))
                /\ \A k \in 2..(n - 1) : v = bps[k][1] => ret = bps[k][2]

\* gradientScore(2.5, [[0, 0], [5, 100]]) has returned 50
C13_Witness ==
    /\ Returned1("gradientScore")
    /\ args = <<Frac(5, 2), <<<<Num(0), Num(0)>>, <<Num(5), Num(100)>>>>>>
    /\ ret = Num(50)

\* s[lo] + ... + s[hi], the sum of the two halves of the range; each half is
\* compared with itself so that it is computed before the halves are added
RECURSIVE SumFrom(_, _, _)
SumFrom(s, lo, hi) ==
    IF lo > hi THEN Num(0)
    ELSE IF lo = hi THEN s[lo]
    ELSE LET mid == (lo + hi) \div 2
             left == SumFrom(s, lo, mid)
             right == SumFrom(s, mid + 1, hi)
         IN  IF left = left /\ right = right THEN Add(left, right) ELSE null

\* the mean of s[lo], ..., s[hi]
MeanFrom(s, lo, hi) == Div(SumFrom(s, lo, hi), Num(hi - lo + 1))

\* the exponential average after the k-th close, for k >= period: the mean of
\* the first period closes, then (close - ema) * 2/(period + 1) + ema
RECURSIVE EmaAfter(_, _, _)
EmaAfter(closes, period, k) ==
    IF k <= period THEN MeanFrom(closes, 1, period)
    ELSE LET before == EmaAfter(closes, period, k - 1)
         IN  Add(Mul(Sub(closes[k], before), Frac(2, period + 1)), before)

\* C14: ema(closes, period) is seeded with the mean of the first period
\* closes and then takes ema := (close - ema) * 2/(period + 1) + ema for each
\* later close in order, up to the last; for the closes 1, 2, 3, 4, 5 and
\* period 3 the seed is 2, the multiplier is 0.5 and the result is 4
C14_EmaSeededOnFirstCloses ==
    Returned1("ema") /\ Len(args[1]) >= args[2] =>
        /\ ret = EmaAfter(args[1], args[2], Len(args[1]))
        /\ args = <<[j \in 1..5 |-> Num(j)], 3>> =>
              /\ EmaAfter(args[1], 3, 3) = Num(2)
              /\ Frac(2, args[2] + 1) = Frac(1, 2)
              /\ ret = Add(Mul(Sub(Num(5), Num(3)), Frac(1, 2)), Num(3))

\* ema([1, 2, 3, 4, 5], 3) has returned 4
C14_Witness ==
    /\ Returned1("ema")
    /\ args = <<[j \in 1..5 |-> Num(j)], 3>>
    /\ ret = Num(4)

\* the k-th price change
ChangeAt(closes, k) == Sub(closes[k + 1], closes[k])

\* the gains and the losses, one for each price change
GainsOf(closes) ==
    [k \in 1..(Len(closes) - 1) |->
        IF Gt(ChangeAt(closes, k), Num(0)) THEN ChangeAt(closes, k) ELSE Num(0)]
LossesOf(closes) ==
    [k \in 1..(Len(closes) - 1) |->
        IF Lt(ChangeAt(closes, k), Num(0))
        THEN Neg(ChangeAt(closes, k)) ELSE Num(0)]

\* Wilder's average of the amounts after the k-th one, for k >= 14: the mean
\* of the first 14, then avg := (avg * 13 + current) / 14
RECURSIVE WilderAfter(_, _)
WilderAfter(amounts, k) ==
    IF k <= 14 THEN MeanFrom(amounts, 1, 14)
    ELSE LET before == WilderAfter(amounts, k - 1)
         IN  IF before = before
             THEN Div(Add(Mul(before, Num(13)), amounts[k]), Num(14))
             ELSE null

\* Wilder's relative strength index of at least 15 closes
WilderRsi(closes) ==
    LET avgGain == WilderAfter(GainsOf(closes), Len(closes) - 1)
        avgLoss == WilderAfter(LossesOf(closes), Len(closes) - 1)
    IN  IF avgLoss = Num(0) THEN Num(100)
        ELSE Sub(Num(100), Div(Num(100), Add(Num(1), Div(avgGain, avgLoss))))

\* Wilder's index of each series of closes rsi is called on
WilderRsiOf ==
    [closes \in {c.args[1] : c \in RsiCalls} |->
        IF Len(closes) >= 15 THEN WilderRsi(closes) ELSE null]

\* C15: rsi(closes, 14) follows Wilder's method: the average gain and the
\* average loss are the means over the first 14 price changes, each later
\* change updates avg := (avg * 13 + current) / 14, and the result is
\* 100 - 100 / (1 + avgGain / avgLoss), except that it is 100 whenever the
\* final average loss is 0, as it is for a flat series
C15_RsiIsWilders ==
    Returned1("rsi") /\ Len(args[1]) >= 15 =>
        /\ ret = WilderRsiOf[args[1]]
        /\ (\A j \in 1..Len(args[1]) : args[1][j] = args[1][1])
               => ret = Num(100)

\* rsi has returned less than 100 for 17 closes with gains and losses, among
\* them a gain after the first 14 changes
C15_Witness ==
    /\ Returned1("rsi")
    /\ Len(args[1]) = 17
    /\ \E k \in 1..14 : Gt(ChangeAt(args[1], k), Num(0))
    /\ \E k \in 1..14 : Lt(ChangeAt(args[1], k), Num(0))
    /\ Gt(ChangeAt(args[1], 16), Num(0))
    /\ Lt(Num(0), ret) /\ Lt(ret, Num(100))

\* the closes of a series of bars
ClosesOfBars(bars) == [j \in 1..Len(bars) |-> bars[j].c]

\* C16: smaAt(closes, period, offset) is null when there are fewer than
\* period + offset closes, and otherwise the mean of the period closes that
\* end offset bars before the most recent one, the closes number
\* len - offset - period + 1 to len - offset counted from 1; with offset 0 it
\* equals sma(closes, period); the sma50_20ago of computeIndicators is the
\* mean of the 50 closes before the latest 20
C16_SmaAtSkipsLatestCloses ==
    /\ Returned1("smaAt") =>
           \A closes \in {args[1]} : \A period \in {args[2]} :
               \A offset \in {args[3]} :
                   /\ ret = IF Len(closes) < period + offset THEN null
                            ELSE MeanFrom(closes,
                                          Len(closes) - offset - period + 1,
                                          Len(closes) - offset)
                   /\ offset = 0 => ret = sma(closes, period)
    /\ Returned1("computeIndicators") /\ "error" \notin DOMAIN ret =>
           \A last \in {Len(args[1])} :
               ret.sma50_20ago
                   = MeanFrom(ClosesOfBars(args[1]), last - 69, last - 20)

\* smaAt has returned the mean of two closes that end one bar before the most
\* recent one, which differs from the mean of the latest two
C16_Witness ==
    /\ Returned1("smaAt")
    /\ args[2] = 2 /\ args[3] = 1
    /\ Len(args[1]) = 4
    /\ ret = MeanFrom(args[1], 2, 3)
    /\ ret # MeanFrom(args[1], 3, 4)

\* the set has no error marker and none of the fields is null
Has(ind, fields) == ~HasError(ind) /\ \A f \in fields : ind[f] # null

\* the breakpoints -half -> 0, 0 -> 0.5, half -> 1
Around(half) ==
    <<<<Num(-half), Num(0)>>, <<Num(0), Frac(1, 2)>>, <<Num(half), Num(1)>>>>

\* C17: calcTrendScore is 100 times the mean of four gradient scores: the
\* distance of the close from ema20 and from sma50, each in percent, over
\* -5 -> 0, 0 -> 0.5, 5 -> 1, and the distance of ema20 from sma50 and the
\* 20-day slope (sma50 - sma50_20ago) / sma50_20ago, each in percent, over
\* -3 -> 0, 0 -> 0.5, 3 -> 1
C17_TrendIsMeanOfFourGradients ==
    Returned1("calcTrendScore")
    /\ Has(args[1], {"ema20", "sma50", "sma50_20ago"}) =>
        \A ind \in {args[1]} :
            LET percent(a, b) == Mul(Div(Sub(a, b), b), Num(100))
                t1 == gradientScore(percent(ind.close, ind.ema20), Around(5))
                t2 == gradientScore(percent(ind.close, ind.sma50), Around(5))
                t3 == gradientScore(percent(ind.ema20, ind.sma50), Around(3))
                t4 == gradientScore(percent(ind.sma50, ind.sma50_20ago),
                                    Around(3))
            IN  ret = Mul(Num(100),
                          Div(Add(t1, Add(t2, Add(t3, t4))), Num(4)))

\* calcTrendScore has scored a set whose four distances all lie within the
\* gradients' ranges, three of them strictly between two breakpoints
C17_Witness ==
    /\ Returned1("calcTrendScore")
    /\ args[1] = [QuietSet EXCEPT !.close = Num(100), !.ema20 = Num(102),
                                  !.sma50 = Num(100), !.sma50_20ago = Num(98)]
    /\ Lt(Num(50), ret) /\ Lt(ret, Num(100))

\* the breakpoints of the pullback score
PullbackCurve ==
    <<<<Num(-3), Num(0)>>, <<Num(0), Num(80)>>, <<Frac(3, 2), Num(100)>>,
      <<Num(3), Num(90)>>, <<Num(6), Num(60)>>, <<Num(10), Num(20)>>,
      <<Num(15), Num(0)>>>>
BelowSma50Curve == <<<<Num(-5), Num(0)>>, <<Num(0), Num(1)>>>>
RsiBonusCurve ==
    <<<<Num(35), Num(0)>>, <<Num(45), Num(5)>>, <<Num(55), Num(10)>>,
      <<Num(65), Num(5)>>, <<Num(75), Num(0)>>>>

\* the distance of a from b in percent of b
PercentFrom(a, b) == Mul(Num(100), Div(Sub(a, b), b))

\* C18: calcPullbackScore takes the gradient score of the distance of the
\* close from ema20 in percent over -3 -> 0, 0 -> 80, 1.5 -> 100, 3 -> 90,
\* 6 -> 60, 10 -> 20, 15 -> 0; multiplies it, only when the close is below
\* sma50, by the factor over -5 -> 0, 0 -> 1 of the distance of the close from
\* sma50 in percent; then adds the RSI bonus over 35 -> 0, 45 -> 5, 55 -> 10,
\* 65 -> 5, 75 -> 0 when there is an RSI; and clamps the result to 0..100
C18_PullbackOrder ==
    Returned1("calcPullbackScore") /\ Has(args[1], {"ema20", "sma50"}) =>
        \A ind \in {args[1]} :
            LET base == gradientScore(PercentFrom(ind.close, ind.ema20),
                                      PullbackCurve)
                factor == IF Lt(ind.close, ind.sma50)
                          THEN gradientScore(PercentFrom(ind.close, ind.sma50),
                                             BelowSma50Curve)
                          ELSE Num(1)
                bonus == IF ind.rsi14 = null THEN Num(0)
                         ELSE gradientScore(ind.rsi14, RsiBonusCurve)
                score == Add(Mul(base, factor), bonus)
            IN  ret = IF Lt(score, Num(0)) THEN Num(0)
                      ELSE IF Gt(score, Num(100)) THEN Num(100) ELSE score

\* calcPullbackScore has scored a close just below sma50 with an RSI bonus:
\* the base 100 is scaled by 33/41 and raised by 10
C18_Witness ==
    /\ Returned1("calcPullbackScore")
    /\ args[1] = [QuietSet EXCEPT !.close = Num(203), !.ema20 = Num(200),
                                  !.sma50 = Num(205), !.rsi14 = Num(55)]
    /\ ret = Add(Mul(Num(100), Frac(33, 41)), Num(10))

\* the breakpoints of the volatility score and of the volume penalty
AtrCurve ==
    <<<<Num(0), Num(10)>>, <<Num(1), Num(50)>>, <<Num(2), Num(90)>>,
      <<Num(3), Num(100)>>, <<Num(4), Num(90)>>, <<Num(6), Num(60)>>,
      <<Num(8), Num(30)>>, <<Num(10), Num(10)>>>>
VolumePenaltyCurve ==
    <<<<Num(0), Num(-40)>>, <<Num(200000), Num(-20)>>, <<Num(500000), Num(0)>>>>

\* C19: calcVolatilityScore adds the penalty over 0 -> -40, 200000 -> -20,
\* 500000 -> 0 of avgVol20 to the score of the ATR in percent of the close
\* exactly when avgVol20 is there and below 500000, and floors the result at
\* 0; for an ATR of 3%, whose score is 100, an avgVol20 of 100000 gets a
\* strictly lower score than one of 600000
C19_VolumePenaltyBelow500000 ==
    Returned1("calcVolatilityScore") /\ Has(args[1], {"atr14"}) =>
        \A ind \in {args[1]} :
            LET base == gradientScore(Mul(Num(100), Div(ind.atr14, ind.close)),
                                      AtrCurve)
                thin == ind.avgVol20 # null /\ Lt(ind.avgVol20, Num(500000))
                score == IF thin
                         THEN Add(base, gradientScore(ind.avgVol20,
                                                      VolumePenaltyCurve))
                         ELSE base
            IN  /\ ret = IF Lt(score, Num(0)) THEN Num(0) ELSE score
                /\ ~thin => ret = base
                /\ base = Num(100) /\ ind.avgVol20 = Num(100000) =>
                       /\ ret = Num(70)
                       /\ Lt(ret, calcVolatilityScore(
                                      [ind EXCEPT !.avgVol20 = Num(600000)]))

\* calcVolatilityScore has scored an ATR of 3% on a volume of 100000 at 70
C19_Witness ==
    /\ Returned1("calcVolatilityScore")
    /\ args[1] = [QuietSet EXCEPT !.atr14 = Num(3), !.avgVol20 = Num(100000)]
    /\ ret = Num(70)

\* the fields each sub-scorer requires
RequiredFields ==
    [calcTrendScore |-> {"ema20", "sma50", "sma50_20ago"},
     calcPullbackScore |-> {"ema20", "sma50"},
     calcVolatilityScore |-> {"atr14"}]

\* the call in progress is one of a sub-scorer on an error marker or on a
\* set in which a field it requires is null
OnUnusableSet ==
    /\ fn \in DOMAIN RequiredFields
    /\ ~Has(args[1], RequiredFields[fn])

\* C20: calcTrendScore, calcPullbackScore and calcVolatilityScore each end by
\* returning the number 0, none of them by raising, when the set is an error
\* marker or when a field they require is null: ema20, sma50 or sma50_20ago
\* for the trend, ema20 or sma50 for the pullback, atr14 for the volatility
C20_SubScorersReturn0OnUnusableSets ==
    pc = "returned" /\ OnUnusableSet => ret = Num(0)

\* calcTrendScore has returned 0 for a set that lacks nothing but sma50_20ago
C20_Witness ==
    /\ Returned1("calcTrendScore")
    /\ Has(args[1], {"close", "ema20", "sma50"})
    /\ args[1].sma50_20ago = null
    /\ ret = Num(0)

(***************************************************************************)
(* calculateAllScores on one batch: a stock against a weaker one           *)
(***************************************************************************)
\* the series of the model that computeIndicators accepts
ScorableSeries == {bars \in TickerSeries : ~HasError(computeIndicators(bars))}

\* the first series has the higher 1-month and the higher 3-month return,
\* hence the higher ones relative to whatever the benchmark returned, and a
\* trend, a pullback and a volatility score each at least the other's
Outperforms(a, b) ==
    LET ia == computeIndicators(a)
        ib == computeIndicators(b)
    IN  /\ Gt(ia.return1m, ib.return1m)
        /\ Gt(ia.return3m, ib.return3m)
        /\ Ge(calcTrendScore(ia), calcTrendScore(ib))
        /\ Ge(calcPullbackScore(ia), calcPullbackScore(ib))
        /\ Ge(calcVolatilityScore(ia), calcVolatilityScore(ib))

OutperformsOf == [p \in ScorableSeries \X ScorableSeries |-> Outperforms(p[1], p[2])]

\* the series of the ticker of a record
SeriesOf(r) == Get(allStockBars, r.ticker)

AllIndicatorsComputed ==
    /\ Len(allIndicators) = Len(allStockBars)
    /\ \A j \in 1..Len(allStockBars) :
          /\ allIndicators[j].key = allStockBars[j].key
          /\ allIndicators[j].value = computeIndicators(allStockBars[j].value)

\* the RS scores are there: one for every ticker of the batch
RSScoresExist ==
    /\ Len(rsScores) = Len(allStockBars)
    /\ \A j \in 1..Len(allStockBars) : HasKey(rsScores, allStockBars[j].key)

\* C22: the RS scores are computed only once the IndicatorSet of every ticker
\* of the batch is there, and from all of them: whenever a call is past its
\* loop over the tickers, or holds an RS score, or holds a result record,
\* allIndicators is complete and the RS scores are the ones calcRSScores
\* gives for the complete allIndicators; the records are built, sorted and
\* ranked only while the RS scores exist
C22_RSAfterAllIndicators ==
    /\ pc \in {"scoring", "ranking", "returning"} \/ rsScores # <<>>
       \/ results # <<>> =>
           /\ AllIndicatorsComputed
           /\ RSScoresExist
           /\ rsScores = calcRSScores(allIndicators, spyIndicators).scores
    /\ pc \in {"benchmark", "indicators"} => rsScores = <<>> /\ results = <<>>

\* the scoring of a batch of three tickers is under way: the RS scores exist
\* and the first record is built
C22_Witness ==
    /\ pc = "scoring"
    /\ Len(allStockBars) = 3
    /\ done = 1
    /\ Len(results) = 1
    /\ RSScoresExist

\* C23: no step of a call of calculateAllScores, the calls of
\* computeIndicators in it included, whether the call returns or throws,
\* changes the ticker-to-bars map, any of its bar series (its length, its
\* order, the fields of its bars) or the benchmark series
C23_InputsNeverModified ==
    [][allStockBars' = allStockBars /\ spyBars' = spyBars]_vars

\* a call on a batch of three tickers, one of them without bars, has returned
C23_Witness ==
    /\ Len(outcomes) >= 1
    /\ Returned(1)
    /\ Len(allStockBars) = 3
    /\ \E j \in 1..3 : IsNullBars(allStockBars[j].value)
    /\ \E j \in 1..3 : ~IsShort(allStockBars[j].value)

\* the place of a ticker in the iteration over the input map
PlaceOf(ticker) == CHOOSE j \in 1..Len(allStockBars) : allStockBars[j].key = ticker

\* C24: in the results a call returns, records with equal reported
\* finalScore stand in the order in which their tickers were iterated from
\* the input map, there being no second sort key, and each has a rank of its
\* own, as far from the other's as their positions: equal scores never share
\* a rank
C24_TiesKeepInputOrder ==
    \A k \in 1..Len(outcomes) :
        Returned(k) =>
            \A res \in {outcomes[k].results} :
                \A r, s \in 1..Len(res) :
                    r < s /\ res[r].finalScore = res[s].finalScore =>
                        /\ PlaceOf(res[r].ticker) < PlaceOf(res[s].ticker)
                        /\ res[s].rank - res[r].rank = s - r

\* a call has returned two scored records of equal finalScore at ranks that
\* follow each other, beside a record of another finalScore
C24_Witness ==
    \E k \in 1..Len(outcomes) :
        /\ Returned(k)
        /\ \E r \in 1..(Len(outcomes[k].results) - 1) :
              /\ ~IsErrorRecord(outcomes[k].results[r])
              /\ ~IsErrorRecord(outcomes[k].results[r + 1])
              /\ outcomes[k].results[r].finalScore
                     = outcomes[k].results[r + 1].finalScore
              /\ outcomes[k].results[r].rank + 1 = outcomes[k].results[r + 1].rank
              /\ \E q \in 1..Len(outcomes[k].results) :
                    outcomes[k].results[q].finalScore
                        # outcomes[k].results[r].finalScore

\* m closes of 100, and m bars that close at 100
FlatCloses(m) == [j \in 1..m |-> Num(100)]
FlatBars(m) == Series(m, 100, 100, 600000)

\* for each helper call of computeIndicators, the lengths up to 80 of a
\* series on which the helper returns a value
EnoughHistory ==
    [ema20 |-> {m \in 0..80 : ema(FlatCloses(m), 20) # null},
     sma50 |-> {m \in 0..80 : sma(FlatCloses(m), 50) # null},
     sma50_20ago |-> {m \in 0..80 : smaAt(FlatCloses(m), 50, 20) # null},
     rsi14 |-> {m \in 0..80 : rsi(FlatCloses(m), 14) # null},
     atr5 |-> {m \in 0..80 : atr(FlatBars(m), 5) # null},
     atr14 |-> {m \in 0..80 : atr(FlatBars(m), 14) # null},
     atr20 |-> {m \in 0..80 : atr(FlatBars(m), 20) # null},
     avgVol20 |-> {m \in 0..80 : avgVolume(FlatBars(m), 20) # null},
     return1m |-> {m \in 0..80 : returnPct(FlatCloses(m), 21) # null},
     return3m |-> {m \in 0..80 : returnPct(FlatCloses(m), 63) # null}]

\* C25: for every series of at least 80 bars computeIndicators returns a set
\* in which none of ema20, sma50, sma50_20ago, rsi14, atr5, atr14, atr20,
\* avgVol20, return1m and return3m is null, every helper asking for fewer
\* than 80 bars (at most the 70 closes of smaAt(50, 20), then the 64 of
\* returnPct(63)); so the ticker's RS composite is not null and no scorer
\* finds a field it requires missing
C25_NoNullFieldFrom80Bars ==
    Returned1("computeIndicators") /\ ~IsNullBars(args[1])
    /\ Len(args[1]) >= 80 =>
        /\ \A f \in DOMAIN EnoughHistory : ret[f] # null
        /\ EnoughHistory.sma50_20ago = 70..80
        /\ EnoughHistory.return3m = 64..80
        /\ \A f \in DOMAIN EnoughHistory :
              \E least \in 1..70 : EnoughHistory[f] = least..80
        /\ rsCompositesOf(<<[key |-> "AAPL", value |-> ret]>>,
                          [return1m |-> Num(0), return3m |-> Num(0)])[1].value
               # null
        /\ \A scorer \in DOMAIN RequiredFields :
              Has(ret, RequiredFields[scorer])

\* computeIndicators has returned a set without a null field for a series of
\* exactly 80 bars that ends on a jump
C25_Witness ==
    /\ Returned1("computeIndicators")
    /\ args[1] = Series(80, 100, 150, 600000)
    /\ \A f \in DOMAIN EnoughHistory : ret[f] # null
    /\ ret.return3m = Num(50)

(***************************************************************************)
(* The RS scores of a batch taken together.  rsScores holds the exact      *)
(* value of count / n * 100; the code holds the double nearest to it.      *)
(***************************************************************************)
\* the places of the tickers with a composite
ValidPlaces == {j \in 1..Len(rsComposites) : rsComposites[j].value # null}

\* the places of ValidPlaces in rising order
ValidInOrder ==
    SelectSeq([j \in 1..Len(rsComposites) |-> j], LAMBDA j : j \in ValidPlaces)

\* the RS score of the ticker at place j as the code computes it:
\* percentileRank(comp, validValues) * 100 in doubles
Float64Score(j) ==
    LET rank == percentileRank(rsComposites[j].value, validValuesOf(rsComposites))
    IN  Float64Times(Float64Quotient(rank[1], rank[2]), 100)

\* the exact sum of the RS scores the code computes for the tickers with a
\* composite
Float64ScoreSum == ExactSum([j \in 1..Len(ValidInOrder) |-> Float64Score(ValidInOrder[j])])

\* C26 as stated: the RS scores of the tickers with a non-null composite sum
\* to exactly 50 times the number of these tickers
C26_ScoresSumTo50PerTicker ==
    pc = "rs-done" /\ ValidPlaces # {} =>
        IsNatural(Float64ScoreSum, 50 * Cardinality(ValidPlaces))

\* the double x is within 2^-40 of the natural n
IsNearNatural(x, n) ==
    LET target == ShiftLeft(Big(n), x.k)
        slack == ShiftLeft(<<1>>, x.k - 40)
    IN  BigLe(target, BigPlus(x.m, slack)) /\ BigLe(x.m, BigPlus(target, slack))

\* C26, amended: in exact arithmetic the RS scores of the tickers with a
\* non-null composite sum to 50 times the number of these tickers, whatever
\* the composites and their ties; the doubles the code computes sum to that
\* within 2^-40, not always to it
C26_ExactScoresSumTo50PerTicker ==
    pc = "rs-done" /\ ValidPlaces # {} =>
        /\ Sum([j \in 1..Len(ValidInOrder) |-> rsScores[ValidInOrder[j]].value])
               = Num(50 * Cardinality(ValidPlaces))
        /\ IsNearNatural(Float64ScoreSum, 50 * Cardinality(ValidPlaces))

\* the scorer has run on three tickers with the composites 1, 2 and 2 and one
\* without a composite: the exact scores sum to 150, the doubles do not
C26_Witness ==
    /\ pc = "rs-done"
    /\ Cardinality(ValidPlaces) = 3
    /\ Len(rsComposites) = 4
    /\ \E j \in ValidPlaces : \A u \in ValidPlaces \ {j} :
          Lt(rsComposites[j].value, rsComposites[u].value)
    /\ \E j, u \in ValidPlaces : j # u /\ rsComposites[j].value = rsComposites[u].value
    /\ ~IsNatural(Float64ScoreSum, 150)

\* the double x is above 0, and below the natural n
IsPositive(x) == x.m # <<0>>
IsBelowNatural(x, n) == x.m # ShiftLeft(Big(n), x.k) /\ BigLe(x.m, ShiftLeft(Big(n), x.k))

\* the double x is at least p / q, and at most p / q, for naturals p and q > 0
IsAtLeast(x, p, q) == BigLe(ShiftLeft(Big(p), x.k), BigTimes(x.m, q))
IsAtMost(x, p, q) == BigLe(BigTimes(x.m, q), ShiftLeft(Big(p), x.k))

\* C27 as stated: every ticker with a non-null composite gets an RS score
\* strictly between 0 and 100, between 50/n and 100 - 50/n for n such
\* tickers, so that rsScores[ticker] || 0 is the score itself, the top ticker
\* stays below 100 and a single such ticker gets exactly 50
C27_ScoreWithin50OverN ==
    pc = "rs-done" =>
        \A j \in ValidPlaces : \A n \in {Cardinality(ValidPlaces)} :
            /\ IsPositive(Float64Score(j)) /\ IsBelowNatural(Float64Score(j), 100)
            /\ IsAtLeast(Float64Score(j), 50, n)
            /\ IsAtMost(Float64Score(j), 100 * n - 50, n)
            /\ rsScoreOf(rsScores, rsScores[j].key) = rsScores[j].value
            /\ n = 1 => IsNatural(Float64Score(j), 50)

\* C27, amended: every ticker with a non-null composite gets an RS score
\* strictly between 0 and 100, in exact arithmetic and in the doubles of the
\* code, so that rsScores[ticker] || 0 is the score itself, the top ticker
\* stays below 100 and a single such ticker gets exactly 50; the exact score
\* lies between 50/n and 100 - 50/n for n such tickers, the double within
\* 2^-40 of that range
C27_ScoreStrictlyBetween0And100 ==
    pc = "rs-done" =>
        \A j \in ValidPlaces : \A n \in {Cardinality(ValidPlaces)} :
            /\ IsPositive(Float64Score(j)) /\ IsBelowNatural(Float64Score(j), 100)
            /\ Lt(Num(0), rsScores[j].value) /\ Lt(rsScores[j].value, Num(100))
            /\ Le(Frac(50, n), rsScores[j].value)
            /\ Le(rsScores[j].value, Sub(Num(100), Frac(50, n)))
            /\ \A x \in {Float64Score(j)} :
                  \A slack \in {ShiftLeft(<<1>>, x.k - 40)} :
                      /\ BigLe(ShiftLeft(Big(50), x.k),
                               BigTimes(BigPlus(x.m, slack), n))
                      /\ BigLe(BigTimes(x.m, n),
                               BigPlus(ShiftLeft(Big(100 * n - 50), x.k),
                                       BigTimes(slack, n)))
            /\ rsScoreOf(rsScores, rsScores[j].key) = rsScores[j].value
            /\ n = 1 => /\ rsScores[j].value = Num(50)
                        /\ IsNatural(Float64Score(j), 50)

\* the scorer has run on three tickers of different composites: the lowest
\* one's exact score is 50/3, and the double the code computes is below it
C27_Witness ==
    /\ pc = "rs-done"
    /\ Cardinality(ValidPlaces) = 3
    /\ \E j \in ValidPlaces :
          /\ rsScores[j].value = Frac(50, 3)
          /\ ~IsAtLeast(Float64Score(j), 50, 3)
          /\ IsPositive(Float64Score(j))


\* the close is 5% of sma50 or more below sma50
FarBelowSma50(ind) == Le(PercentFrom(ind.close, ind.sma50), Num(-5))

\* C28: for an indicator set with ema20 and sma50 whose close is 5% or more
\* below sma50, calcPullbackScore returns the RSI bonus alone: the gradient
\* score of rsi14 over 35 -> 0, 45 -> 5, 55 -> 10, 65 -> 5, 75 -> 0, or 0
\* without an RSI; it is between 0 and 10, unfaded by the sma50 factor, and
\* above 0 whenever rsi14 is strictly between 35 and 75
C28_OnlyRsiBonusFarBelowSma50 ==
    Returned1("calcPullbackScore") /\ Has(args[1], {"ema20", "sma50"}) =>
        \A ind \in {args[1]} :
            FarBelowSma50(ind) =>
                /\ ret = IF ind.rsi14 = null THEN Num(0)
                         ELSE gradientScore(ind.rsi14, RsiBonusCurve)
                /\ Ge(ret, Num(0)) /\ Le(ret, Num(10))
                /\ ind.rsi14 # null /\ Gt(ind.rsi14, Num(35))
                      /\ Lt(ind.rsi14, Num(75)) => Gt(ret, Num(0))

\* calcPullbackScore has scored a close of 198, 20.8% below an sma50 of 250
\* and 1% below ema20, where the distance part alone would be above 0, with
\* an RSI of 55: the score is the whole bonus of 10
C28_Witness ==
    /\ Returned1("calcPullbackScore")
    /\ args[1] = [QuietSet EXCEPT !.close = Num(198), !.ema20 = Num(200),
                                  !.sma50 = Num(250), !.rsi14 = Num(55)]
    /\ FarBelowSma50(args[1])
    /\ Gt(gradientScore(PercentFrom(args[1].close, args[1].ema20),
                        PullbackCurve), Num(0))
    /\ ret = Num(10)

(***************************************************************************)
(* runAnalysis and the handler of POST /api/analyze, which fetch the bars  *)
(* of the benchmark and of the requested tickers, keep the tickers with    *)
(* enough bars and score them.  The handler holds the same statements as   *)
(* runAnalysis and answers where runAnalysis throws.  The call of          *)
(* calculateAllScores runs through the actions of calculateAllScores       *)
(* above, on validBars and the fetched benchmark.                          *)
(***************************************************************************)
\* the most stocks in a request of the model
MaxStocks == 3

\* if (stocks.length > 100)
MaxStocksPerAnalysis == 100

\* a variant that takes a series one bar short for sufficient
OneBarLess == 80 - 1

\* allBars[ticker].length < 80, spyBars.length < 80
SufficientBars == 80

\* the routes
RunAnalysis == "runAnalysis"
PostApiAnalyze == "POST /api/analyze"

\* a stock of a request with its metadata, and one with its ticker alone
Stock(j, listed) ==
    IF listed
    THEN [ticker |-> TickerNames[j], name |-> "name", sector |-> "sector",
          industry |-> "industry"]
    ELSE [ticker |-> TickerNames[j]]

\* requests of up to MaxStocks stocks with distinct tickers, every other one
\* with its metadata
Requests == {[j \in 1..n |-> Stock(j, j % 2 = 1)] : n \in 0..MaxStocks}

\* what fetchDailyBars returns when it does not throw: no bar, one bar short,
\* flat, a 50% fall on thin volume; and the message it throws with
FetchedSeries ==
    {Series(0, 100, 100, 600000),
     Series(79, 100, 100, 600000),
     Series(80, 100, 100, 600000),
     Series(81, 100, 50, 100000)}
FetchedBenchmarkSeries ==
    {Series(0, 100, 100, 600000),
     Series(79, 100, 100, 600000),
     Series(80, 100, 100, 600000),
     Series(81, 100, 102, 600000)}
PolygonError == "Polygon API error"

\* stocks.map(s => s.ticker)
tickersOf(body) == [j \in 1..Len(body) |-> body[j].ticker]

\* s.name, s.sector, s.industry of a stock: undefined when it has none
FieldOf(stock, field) ==
    IF field \in DOMAIN stock THEN [string |-> stock[field]] ELSE undefined

\* metaMap[s.ticker] = { name: s.name, sector: s.sector, industry: s.industry }
metaMapOf(body) ==
    For(LAMBDA j, obj :
            Put(obj, body[j].ticker,
                [name |-> FieldOf(body[j], "name"),
                 sector |-> FieldOf(body[j], "sector"),
                 industry |-> FieldOf(body[j], "industry")]),
        1, Len(body), <<>>)

\* x || ''
OrEmpty(x) == IF x = undefined THEN "" ELSE x.string

\* r.name = meta.name || '' and so on, for meta = metaMap[r.ticker] || {}
withMetadata(r, metaMap) ==
    LET meta == IF HasKey(metaMap, r.ticker) THEN Get(metaMap, r.ticker)
                ELSE [name |-> undefined, sector |-> undefined,
                      industry |-> undefined]
    IN  [f \in DOMAIN r \cup {"name", "sector", "industry"} |->
            IF f \in {"name", "sector", "industry"} THEN OrEmpty(meta[f])
            ELSE r[f]]

\* what the route ends with: runAnalysis returns or throws, the handler sends
Returning(value) ==
    IF route = RunAnalysis THEN [returned |-> value]
    ELSE [status |-> 200, json |-> value]
Failing(status, message) ==
    IF route = RunAnalysis THEN [thrown |-> message]
    ELSE [status |-> status, json |-> [error |-> message]]

\* the variables of calculateAllScores, which the routes leave alone until
\* they call it
engine == <<allStockBars, spyIndicators, allIndicators, rsScores,
            rsComposites, results, outcomes>>

InitAnalysis ==
    /\ route \in {RunAnalysis, PostApiAnalyze}
    /\ stocks \in Requests
    /\ pc = "request"
    /\ allStockBars = <<>>
    /\ spyBars = nullBars
    /\ spyIndicators = undefined
    /\ allIndicators = <<>>
    /\ rsScores = <<>>
    /\ rsComposites = <<>>
    /\ results = <<>>
    /\ done = 0
    /\ now = 0
    /\ outcomes = <<>>
    /\ allBars = <<>>
    /\ errors = <<>>
    /\ validBars = <<>>
    /\ fetchErrors = <<>>
    /\ analysis = undefined
    /\ scoringCalls = <<>>
    /\ response = undefined
    /\ NoHelper
    /\ NoDatabase

\* part_007 lines 50-57: the handler refuses a request without stocks or
\* with more than 100
Refused ==
    route = PostApiAnalyze
        /\ (Len(stocks) = 0 \/ Len(stocks) > MaxStocksPerAnalysis)

RefuseRequest ==
    /\ pc = "request"
    /\ Refused
    /\ response' = [status |-> 400,
                    json |-> [error |-> IF Len(stocks) = 0
                                        THEN "No stocks provided"
                                        ELSE "Maximum 100 tickers allowed per analysis"]]
    /\ pc' = "done"
    /\ UNCHANGED <<request, database, helper, engine, spyBars, done, now,
                   allBars, errors, validBars, fetchErrors, analysis,
                   scoringCalls>>

\* part_005 line 853: fetchDailyBars('SPY', ...) throws
FetchBenchmarkThrows ==
    /\ pc = "request"
    /\ ~Refused
    /\ response' = Failing(500, PolygonError)
    /\ pc' = "done"
    /\ UNCHANGED <<request, database, helper, engine, spyBars, done, now,
                   allBars, errors, validBars, fetchErrors, analysis,
                   scoringCalls>>

\* part_005 lines 853-856: the benchmark has fewer than 80 bars
FetchBenchmarkShort ==
    /\ pc = "request"
    /\ ~Refused
    /\ \E bars \in FetchedBenchmarkSeries :
          /\ Len(bars) < SufficientBars
          /\ spyBars' = bars
    /\ response' =
           Failing(500, "Could not fetch sufficient SPY benchmark data")
    /\ pc' = "done"
    /\ UNCHANGED <<request, database, helper, engine, done, now, allBars,
                   errors, validBars, fetchErrors, analysis, scoringCalls>>

\* part_005 lines 853-859: the benchmark has its bars; fetchMultipleTickers
\* starts
FetchBenchmark ==
    /\ pc = "request"
    /\ ~Refused
    /\ \E bars \in FetchedBenchmarkSeries :
          /\ Len(bars) >= SufficientBars
          /\ spyBars' = bars
    /\ pc' = "fetching"
    /\ done' = 0
    /\ UNCHANGED <<request, database, helper, engine, now, allBars, errors,
                   validBars, fetchErrors, analysis, scoringCalls, response>>

\* trading-calendar.js lines 353-356: one turn of fetchMultipleTickers' loop
\* whose fetchDailyBars returns
FetchTickerBars ==
    /\ pc = "fetching"
    /\ done < Len(stocks)
    /\ \E bars \in FetchedSeries :
          allBars' = Put(allBars, tickersOf(stocks)[done + 1], bars)
    /\ done' = done + 1
    /\ UNCHANGED <<request, database, helper, engine, spyBars, pc, now,
                   errors, validBars, fetchErrors, analysis, scoringCalls,
                   response>>

\* trading-calendar.js lines 356-359: one whose fetchDailyBars throws
FetchTickerThrows ==
    /\ pc = "fetching"
    /\ done < Len(stocks)
    /\ errors' = Put(errors, tickersOf(stocks)[done + 1], PolygonError)
    /\ done' = done + 1
    /\ UNCHANGED <<request, database, helper, engine, spyBars, pc, now,
                   allBars, validBars, fetchErrors, analysis, scoringCalls,
                   response>>

\* trading-calendar.js line 363: fetchMultipleTickers returns
FetchedAll ==
    /\ pc = "fetching"
    /\ done >= Len(stocks)
    /\ pc' = "sorting out"
    /\ done' = 0
    /\ UNCHANGED <<request, database, helper, engine, spyBars, now, allBars,
                   errors, validBars, fetchErrors, analysis, scoringCalls,
                   response>>

\* !allBars[ticker] || allBars[ticker].length < 80
insufficient(fetched, ticker) ==
    \/ ~HasKey(fetched, ticker)
    \/ IsNullBars(Get(fetched, ticker))
    \/ Len(Get(fetched, ticker)) < SufficientBars

\* part_005 lines 863-871: one turn of the loop over the tickers
SortOutTicker ==
    /\ pc = "sorting out"
    /\ done < Len(stocks)
    /\ LET ticker == tickersOf(stocks)[done + 1]
       IN  IF HasKey(errors, ticker) /\ Get(errors, ticker) # ""
           THEN /\ fetchErrors' =
                      Append(fetchErrors,
                             [ticker |-> ticker, error |-> Get(errors, ticker)])
                /\ UNCHANGED validBars
           ELSE IF insufficient(allBars, ticker)
           THEN /\ fetchErrors' =
                      Append(fetchErrors,
                             [ticker |-> ticker,
                              error |-> "Insufficient historical data"])
                /\ UNCHANGED validBars
           ELSE /\ validBars' = Put(validBars, ticker, Get(allBars, ticker))
                /\ UNCHANGED fetchErrors
    /\ done' = done + 1
    /\ UNCHANGED <<request, database, helper, engine, spyBars, pc, now,
                   allBars, errors, analysis, scoringCalls, response>>

\* part_005 lines 874-876 and part_007 lines 96-101: no ticker is valid
NoValidStockData ==
    /\ pc = "sorting out"
    /\ done >= Len(stocks)
    /\ Len(validBars) = 0
    /\ response' =
           IF route = RunAnalysis
           THEN [thrown |-> "No valid stock data could be retrieved"]
           ELSE [status |-> 400,
                 json |-> [error |-> "No valid stock data could be retrieved",
                           fetchErrors |-> fetchErrors]]
    /\ pc' = "done"
    /\ UNCHANGED <<request, database, helper, engine, spyBars, done, now,
                   allBars, errors, validBars, fetchErrors, analysis,
                   scoringCalls>>

\* part_005 line 878: calculateAllScores(validBars, spyBars) is called, and
\* starts on new locals
ScoreValidBars ==
    /\ pc = "sorting out"
    /\ done >= Len(stocks)
    /\ Len(validBars) # 0
    /\ scoringCalls' = Append(scoringCalls, <<validBars, spyBars>>)
    /\ allStockBars' = validBars
    /\ pc' = "benchmark"
    /\ spyIndicators' = undefined
    /\ allIndicators' = <<>>
    /\ rsScores' = <<>>
    /\ rsComposites' = <<>>
    /\ results' = <<>>
    /\ done' = 0
    /\ UNCHANGED <<request, database, helper, spyBars, now, outcomes, allBars,
                   errors, validBars, fetchErrors, analysis, response>>

\* part_005 lines 878-888: calculateAllScores has returned; the metadata of
\* each result, the fetch errors, and the answer
ReturnAnalysis ==
    /\ pc = "idle"
    /\ Len(outcomes) = Len(scoringCalls)
    /\ Len(outcomes) # 0
    /\ "results" \in DOMAIN outcomes[Len(outcomes)]
    /\ analysis' =
           [f \in DOMAIN outcomes[Len(outcomes)] \cup {"fetchErrors"} |->
               IF f = "fetchErrors" THEN fetchErrors
               ELSE IF f = "results"
               THEN [j \in 1..Len(outcomes[Len(outcomes)].results) |->
                        withMetadata(outcomes[Len(outcomes)].results[j],
                                     metaMapOf(stocks))]
               ELSE outcomes[Len(outcomes)][f]]
    /\ response' = Returning(analysis')
    /\ pc' = "done"
    /\ UNCHANGED <<request, database, helper, engine, spyBars, done, now,
                   allBars, errors, validBars, fetchErrors, scoringCalls>>

\* The benchmark that reaches calculateAllScores has 80 bars or more, so its
\* throw on the benchmark's indicators (BenchmarkFails) is out of reach here
NextAnalysis ==
    \/ RefuseRequest
    \/ FetchBenchmarkThrows
    \/ FetchBenchmarkShort
    \/ FetchBenchmark
    \/ FetchTickerBars
    \/ FetchTickerThrows
    \/ FetchedAll
    \/ SortOutTicker
    \/ NoValidStockData
    \/ ScoreValidBars
    \/ BenchmarkComputed
    \/ TickerIndicators
    \/ RelativeStrength
    \/ ScoreTicker
    \/ SortResults
    \/ AssignRanks
    \/ Return
    \/ ReturnAnalysis

SpecAnalysis == InitAnalysis /\ [][NextAnalysis]_vars

\* the tickers of the request, and how often an array of records names one
Requested == {stocks[j].ticker : j \in 1..Len(stocks)}
TimesIn(arr, ticker) ==
    Cardinality({j \in 1..Len(arr) : arr[j].ticker = ticker})

\* the route has answered with an analysis, and the analysis it answered with
Answered ==
    /\ pc = "done"
    /\ \/ "returned" \in DOMAIN response
       \/ "status" \in DOMAIN response /\ response.status = 200
AnalysisSent ==
    IF route = RunAnalysis THEN response.returned ELSE response.json

\* the fetch of the ticker threw, or brought no bars or fewer than 80
FetchFailed(ticker) ==
    \/ HasKey(errors, ticker)
    \/ ~HasKey(allBars, ticker)
    \/ Len(Get(allBars, ticker)) < 80

\* the tickers that a call of calculateAllScores was given
PassedToScoring ==
    UNION {{scoringCalls[k][1][j].key : j \in 1..Len(scoringCalls[k][1])} :
              k \in 1..Len(scoringCalls)}

\* C29: in runAnalysis and in the handler of POST /api/analyze, for a request
\* with distinct tickers, the analysis that is returned names every requested
\* ticker exactly once, in its results or in its fetchErrors, and no other;
\* a ticker whose fetch threw or brought no bars or fewer than 80 is in
\* fetchErrors and was never passed to calculateAllScores, so no result is an
\* error record; and calculateAllScores is called only when some ticker is
\* valid
C29_EveryTickerInResultsOrFetchErrors ==
    /\ Answered =>
          /\ \A ticker \in Requested :
                /\ TimesIn(AnalysisSent.results, ticker)
                      + TimesIn(AnalysisSent.fetchErrors, ticker) = 1
                /\ FetchFailed(ticker) <=>
                      TimesIn(AnalysisSent.fetchErrors, ticker) = 1
          /\ Len(AnalysisSent.results) + Len(AnalysisSent.fetchErrors)
                = Len(stocks)
          /\ \A j \in 1..Len(AnalysisSent.results) :
                ~IsErrorRecord(AnalysisSent.results[j])
    /\ \A ticker \in PassedToScoring :
          ticker \in Requested /\ ~FetchFailed(ticker)
    /\ (\A ticker \in Requested : FetchFailed(ticker)) => scoringCalls = <<>>

\* runAnalysis has returned the analysis of three stocks: the fetch of the
\* first threw, the second has 79 bars and the third was scored
C29_Witness ==
    /\ route = RunAnalysis
    /\ Answered
    /\ Len(stocks) = 3
    /\ HasKey(errors, stocks[1].ticker)
    /\ HasKey(allBars, stocks[2].ticker)
    /\ Len(Get(allBars, stocks[2].ticker)) = 79
    /\ Len(AnalysisSent.fetchErrors) = 2
    /\ Len(AnalysisSent.results) = 1
    /\ AnalysisSent.results[1].ticker = stocks[3].ticker
    /\ AnalysisSent.results[1].rank = 1
    /\ Len(scoringCalls) = 1

(***************************************************************************)
(* createPortfolioFromRanking (routes/portfolios.js).  Each call is a      *)
(* frame of callers; an action is what a call does from one await to the   *)
(* next, which JavaScript runs without interruption, and the calls         *)
(* interleave at their awaits.  The database executes one statement at a   *)
(* time and there is no transaction around the statements of a call.       *)
(***************************************************************************)
\* the most calls in a behaviour and the most stocks in a ranking
MaxCallers == 2
MaxRanked == 2

\* results.slice(0, 5), initialCapital = 100000, holdingDays: 30
TopCount == 5
InitialCapital == 100000
HoldingDays == 30

\* the ids a call can be made with: the ranking's, and one that no row has
RankingIds == {1, 2}

\* a stock of resultsJson, with and without indicators.close
Ranked(j, withClose) ==
    IF withClose
    THEN [ticker |-> TickerNames[j], indicators |-> [close |-> Num(40)]]
    ELSE [ticker |-> TickerNames[j], indicators |-> [close |-> null]]

RankedLists ==
    UNION {{[j \in 1..n |-> Ranked(j, f[j])] : f \in [1..n -> BOOLEAN]} :
              n \in 0..MaxRanked}

\* a row of ranking_results (schema.js lines 11-22), the columns that
\* createPortfolioFromRanking reads or writes; resultsJson stands as the array
\* that JSON.parse gives, portfolioId 0 for NULL
RankingRow(id, ranked) ==
    [id |-> id, listName |-> "leading_stocks", resultsJson |-> ranked,
     portfolioId |-> 0, portfolioStatus |-> "none"]

\* a call that has not read anything yet
NoRow == [id |-> 0]
Frame(id) ==
    [rankingResultId |-> id, at |-> "select", ranking |-> NoRow,
     top5 |-> <<>>, holdingsList |-> <<>>, portfolio |-> NoRow, k |-> 0,
     outcome |-> undefined]

InitPortfolio ==
    /\ \E ranked \in RankedLists : rankingResults = <<RankingRow(1, ranked)>>
    /\ portfolios = <<>>
    /\ portfolioHoldings = <<>>
    /\ portfolioSnapshots = <<>>
    /\ callers = <<>>
    /\ allStockBars = <<>>
    /\ spyBars = nullBars
    /\ pc = "serving"
    /\ spyIndicators = undefined
    /\ allIndicators = <<>>
    /\ rsScores = <<>>
    /\ rsComposites = <<>>
    /\ results = <<>>
    /\ done = 0
    /\ now = 0
    /\ outcomes = <<>>
    /\ NoHelper
    /\ NoAnalysis

\* what the actions on the database leave alone
elsewhere == <<request, server, helper, inputs, locals, pc, now, outcomes>>

\* lines 11-17, 362, part_005 line 512: a call starts and sends its select
CallCreatePortfolio ==
    /\ Len(callers) < MaxCallers
    /\ \E id \in RankingIds : callers' = Append(callers, Frame(id))
    /\ UNCHANGED <<tables, elsewhere>>

\* the call's frame moves on
Becomes(c, frame) == callers' = [callers EXCEPT ![c] = frame]
Throws(c, message) ==
    Becomes(c, [callers[c] EXCEPT !.at = "thrown",
                                  !.outcome = [thrown |-> message]])

\* .where(eq(rankingResults.id, rankingResultId)): the rows with the id
rowsWithId(id) ==
    SelectSeq(rankingResults, LAMBDA row : row.id = id)

\* results.slice(0, 5)
top5Of(ranked) ==
    SubSeq(ranked, 1, IF Len(ranked) < TopCount THEN Len(ranked)
                      ELSE TopCount)

\* lines 14-30: the select returns and the call checks what it got
SelectRanking ==
    \E c \in 1..Len(callers) :
        /\ callers[c].at = "select"
        /\ LET found == rowsWithId(callers[c].rankingResultId)
           IN  IF Len(found) = 0
               THEN Throws(c, "Ranking result not found")
               ELSE IF found[1].portfolioStatus = "active"
               THEN Throws(c, "Portfolio already exists for this ranking")
               ELSE IF Len(top5Of(found[1].resultsJson)) = 0
               THEN Throws(c, "No stocks to create portfolio from")
               ELSE Becomes(c, [callers[c] EXCEPT
                                   !.at = "prices", !.ranking = found[1],
                                   !.top5 = top5Of(found[1].resultsJson),
                                   !.k = 0])
        /\ UNCHANGED <<tables, elsewhere>>

\* Math.floor(x)
MathFloor(x) == Num(x[1] \div x[2])

\* lines 46-54: the holding of a stock bought at a price; toString and
\* toFixed(2) stand as the numbers they write
holdingOf(stock, price, perStock) ==
    [symbol |-> stock.ticker,
     shares |-> Div(MathFloor(Mul(Div(perStock, price), Num(10000))),
                    Num(10000)),
     entryPrice |-> Round2(price),
     currentPrice |-> Round2(price),
     gainLoss |-> Num(0),
     gainLossPct |-> Num(0)]

\* what fetchDailyBars brings for a stock: a last close; or no bar or a
\* throw, after either of which the price is taken from the ranking
LastCloses == {Num(50)}
NoBars == null

\* lines 39-71: holdingsList after one turn of the loop over top5, where
\* fetched is the last close that fetchDailyBars brought, or null when it
\* brought no bar or threw: the price is then stock.indicators?.close, and a
\* stock without a price is left out
pushed(holdings, stock, fetched, perStock) ==
    LET price == IF fetched # null THEN fetched ELSE stock.indicators.close
    IN  IF Truthy(price)
        THEN Append(holdings, holdingOf(stock, price, perStock))
        ELSE holdings

\* lines 39-75: one turn of the loop, and after the last one the check that
\* there is a holding
FetchPrice ==
    \E c \in 1..Len(callers) :
        /\ callers[c].at = "prices"
        /\ \E fetched \in LastCloses \cup {NoBars} :
              LET frame == callers[c]
                  perStock == Div(Num(InitialCapital), Num(Len(frame.top5)))
                  holdings == pushed(frame.holdingsList,
                                     frame.top5[frame.k + 1], fetched,
                                     perStock)
              IN  IF frame.k + 1 < Len(frame.top5)
                  THEN Becomes(c, [frame EXCEPT !.holdingsList = holdings,
                                                !.k = frame.k + 1])
                  ELSE IF Len(holdings) = 0
                  THEN Throws(c, "Could not get prices for any stocks")
                  ELSE Becomes(c, [frame EXCEPT !.holdingsList = holdings,
                                                !.k = 0,
                                                !.at = "insert portfolio"])
        /\ UNCHANGED <<tables, elsewhere>>

\* lines 77-91: the insert into portfolios, whose id is the next of a serial
InsertPortfolio ==
    \E c \in 1..Len(callers) :
        /\ callers[c].at = "insert portfolio"
        /\ LET row == [id |-> Len(portfolios) + 1,
                       rankingResultId |-> callers[c].rankingResultId,
                       listName |-> callers[c].ranking.listName,
                       status |-> "active",
                       initialCapital |-> Num(InitialCapital),
                       currentValue |-> Num(InitialCapital),
                       totalGainLoss |-> Num(0),
                       totalGainLossPct |-> Num(0),
                       purchaseDate |-> "today",
                       holdingDays |-> HoldingDays]
           IN  /\ portfolios' = Append(portfolios, row)
               /\ Becomes(c, [callers[c] EXCEPT !.portfolio = row, !.k = 0,
                                                !.at = "insert holdings"])
        /\ UNCHANGED <<rankingResults, portfolioHoldings, portfolioSnapshots,
                       elsewhere>>

\* lines 93-98: one insert into portfolio_holdings
InsertHolding ==
    \E c \in 1..Len(callers) :
        /\ callers[c].at = "insert holdings"
        /\ LET frame == callers[c]
               h == frame.holdingsList[frame.k + 1]
           IN  /\ portfolioHoldings' =
                      Append(portfolioHoldings,
                             [f \in DOMAIN h \cup {"id", "portfolioId"} |->
                                 IF f = "id" THEN Len(portfolioHoldings) + 1
                                 ELSE IF f = "portfolioId"
                                 THEN frame.portfolio.id
                                 ELSE h[f]])
               /\ Becomes(c, [frame EXCEPT
                                 !.k = frame.k + 1,
                                 !.at = IF frame.k + 1 < Len(frame.holdingsList)
                                        THEN "insert holdings"
                                        ELSE "insert snapshot"])
        /\ UNCHANGED <<rankingResults, portfolios, portfolioSnapshots,
                       elsewhere>>

\* lines 100-107: the insert into portfolio_snapshots
InsertSnapshot ==
    \E c \in 1..Len(callers) :
        /\ callers[c].at = "insert snapshot"
        /\ portfolioSnapshots' =
               Append(portfolioSnapshots,
                      [id |-> Len(portfolioSnapshots) + 1,
                       portfolioId |-> callers[c].portfolio.id,
                       snapshotDate |-> "today",
                       totalValue |-> Num(InitialCapital),
                       totalGainLoss |-> Num(0),
                       totalGainLossPct |-> Num(0),
                       holdingsJson |-> callers[c].holdingsList])
        /\ Becomes(c, [callers[c] EXCEPT !.at = "update ranking"])
        /\ UNCHANGED <<rankingResults, portfolios, portfolioHoldings,
                       elsewhere>>

\* lines 109-113: the update of ranking_results, and the return
UpdateRanking ==
    \E c \in 1..Len(callers) :
        /\ callers[c].at = "update ranking"
        /\ rankingResults' =
               [j \in 1..Len(rankingResults) |->
                   IF rankingResults[j].id = callers[c].rankingResultId
                   THEN [rankingResults[j] EXCEPT
                            !.portfolioId = callers[c].portfolio.id,
                            !.portfolioStatus = "active"]
                   ELSE rankingResults[j]]
        /\ Becomes(c, [callers[c] EXCEPT
                          !.at = "returned",
                          !.outcome = [success |-> TRUE,
                                       portfolio |-> callers[c].portfolio,
                                       holdings |-> callers[c].holdingsList]])
        /\ UNCHANGED <<portfolios, portfolioHoldings, portfolioSnapshots,
                       elsewhere>>

NextPortfolio ==
    \/ CallCreatePortfolio
    \/ SelectRanking
    \/ FetchPrice
    \/ InsertPortfolio
    \/ InsertHolding
    \/ InsertSnapshot
    \/ UpdateRanking

SpecPortfolio == InitPortfolio /\ [][NextPortfolio]_vars

\* the rows of portfolios that belong to a ranking
PortfoliosOf(id) ==
    {j \in 1..Len(portfolios) : portfolios[j].rankingResultId = id}

\* C30: createPortfolioFromRanking creates at most one portfolio, with its
\* holdings and its first snapshot, for a ranking result, also when calls
\* for the same ranking id interleave at their awaits: no ranking has two
\* rows in portfolios, and of the calls for a ranking at most one returns a
\* portfolio
C30_AtMostOnePortfolioPerRanking ==
    \A id \in RankingIds :
        /\ Cardinality(PortfoliosOf(id)) <= 1
        /\ Cardinality({c \in 1..Len(callers) :
               /\ callers[c].rankingResultId = id
               /\ callers[c].at = "returned"}) <= 1
=============================================================================
